---------------------------- MODULE Spec2Model ----------------------------
(***************************************************************************)
(* A model of HALFpipe's working-directory manager (tui/working_directory/ *)
(* base.py) with the compact file browser it listens to (tui/utils/        *)
(* filebrowser.py), and of the run selection of ingest/collect.py.         *)
(*                                                                         *)
(* The user interface runs on one cooperative event loop.  The            *)
(* WorkDirectory widget handles its messages one at a time, in the order   *)
(* they were posted; a handler that awaits keeps the later messages        *)
(* waiting.  A method decorated with @work runs as a task of its own; it   *)
(* gives up control only at an await, so the code between two awaits is    *)
(* one step of the model.  A modal screen covers what is below it: the     *)
(* user acts on the top screen only.                                       *)
(***************************************************************************)
EXTENDS Naturals, Sequences, FiniteSets

VARIABLES
    workdir,             \* ctx.workdir
    ctx_spec,            \* ctx.spec: global_settings, files, settings, features, models
    database,            \* ctx.database: the file objects registered by ctx.put
    cache,               \* ctx.cache: the pairs <<key, kind>> that hold a value
    existing_spec,       \* WorkDirectory.existing_spec
    data_input_success,  \* WorkDirectory.data_input_success
    staged,              \* WorkDirectory.{event,atlas,seed_map,spatial_map}_file_objects
    selected_path,       \* FileBrowser.selected_path (reactive)
    label,               \* the path the FileBrowser's label shows
    flags_to_show_tabs,  \* app.flags_to_show_tabs
    tabs_shown,          \* whether the application tabs are revealed
    file_items,          \* the FileItem widgets in the DOM
    feature_widgets,     \* the feature widgets mounted, in mounting order
    screen_stack,        \* the modal screens pushed, the last one on top
    queue,               \* the WorkDirectory's pending messages
    handler,             \* where the WorkDirectory's message handler stands
    workers,             \* the running workers of the WorkDirectory
    backups,             \* the directories whose spec.json has a backup copy
    crashed,             \* a handler or worker raised: the application ended
    hist,                \* history of the run, read by the properties only
    run_facts,           \* collect_bold_files: what the database and the images hold
    collect_pc,          \* collect_bold_files: the statement it stands at
    bold_file_paths,     \* collect_bold_files: bold_file_paths
    bold_file_paths_dict,\* collect_bold_files: bold_file_paths_dict, the mapping returned
    bids_file_paths,     \* the registrations of _bids_database
    bids_dict,           \* collect_bold_files: bids_dict, as pairs <<bids_path, run>>
    todo_paths,          \* runs the loop of lines 184-198 has still to visit
    todo_groups,         \* groups the loop of lines 200-255 has still to visit
    log,                 \* the warnings logged
    fm_none,             \* collect_fieldmaps: the association query returned None
    fm_suffix,           \* collect_fieldmaps: the suffix tag of each candidate found
    fm_silent,           \* collect_fieldmaps: the argument silent
    fm_pc,               \* collect_fieldmaps: the statement it stands at
    fm_candidates,       \* collect_fieldmaps: candidates
    fm_pass1,            \* the candidates as the completeness pass left them
    fm_check,            \* what check_pes did: "none", "accept" or "ValueError"
    fm_log,              \* the messages logged
    fm_result,           \* the list returned
    ev_source_sub,       \* collect_events: the sub tag of the source file
    ev_files,            \* collect_events: the sub, extension and condition tags of the event files
    ev_none,             \* collect_events: the association query returned None
    ev_listing,          \* collect_events: the tuple the association query returned
    ev_pc,               \* collect_events: the statement it stands at
    ev_result,           \* collect_events: what it returned
    gc_none,             \* get_conditions: the database holds no BOLD file
    gc_events,           \* get_conditions: the collect_events result of each BOLD run
    gc_parse,            \* get_conditions: the conditions ConditionFile reads from a tuple
    gc_pc,               \* get_conditions: the statement it stands at
    gc_todo,             \* get_conditions: the runs the loop has still to visit
    gc_seen,             \* get_conditions: seen
    gc_conditions,       \* get_conditions: conditions
    gc_parsed,           \* history: the tuples parsed, in the order of parsing
    md_skip,             \* CheckMetadataStep: what the hook _should_skip returns
    md_filters,          \* CheckMetadataStep.filters
    md_key,              \* CheckMetadataStep.key
    md_vals,             \* the value of the key for each resolved file, 0 if absent
    md_matching,         \* the specification file objects the filters resolve to
    md_pc,               \* the method of the wizard that runs next
    md_is_first_run,     \* CheckMetadataStep.is_first_run
    md_should_skip,      \* CheckMetadataStep.should_skip
    md_is_missing,       \* CheckMetadataStep.is_missing
    md_choice,           \* CheckMetadataStep.choice
    md_suggestion,       \* CheckMetadataStep.suggestion
    md_views,            \* the views CheckMetadataStep appended
    md_asked,            \* how often CheckMetadataStep called its input view
    md_set_step,         \* the SetMetadataStep constructed, if any
    md_result,           \* SetMetadataStep.result
    md_metadata,         \* the metadata mapping of each specification file object
    \* --- the task-based feature widget (taskbased.py, class TaskBased)
    tb_task_conditions,  \* what extract_conditions returns for each task
    tb_pc,               \* "new", "constructed" or "mounted" ("idle": not used)
    tb_feature,          \* feature_dict
    tb_setting,          \* setting_dict
    tb_images_to_use,    \* images_to_use["task"]
    tb_confounds_options, \* confounds_options[key][1]
    tb_selected_images,  \* selected of the selection list images_to_use_selection
    tb_selected_confounds, \* selected of the selection list confounds_selection
    tb_pending,          \* the SelectedChanged messages not handled yet
    tb_condition_values, \* condition_values of the conditions-and-contrasts sub-editor
    tb_switches,         \* the switch-with-input controls of the widget, by id
    tb_labels,           \* the labels of the two width controls
    tb_panel,            \* visibility of the width controls, height of the panel
    \* --- the preprocessing widget (preprocessing/base.py)
    pp_global_settings,  \* ctx.spec.global_settings
    pp_pc,               \* "widget", or "modal" while the modal is on the screen
    pp_via_algorithm,    \* value of the switch via_algorithm_switch
    pp_recon_all,        \* value of the switch run_recon_all
    pp_edit_visible,     \* visibility of edit_button and of remove_volumes_value
    pp_label,            \* text of manualy_set_volumes_to_remove_label
    pp_shown,            \* text and border of remove_volumes_value
    pp_input,            \* the Input of the modal
    \* --- a switch-with-input control (taskbased.py, SwitchWithInputBox/SwitchWithSelect)
    sw_kind,             \* "SwitchWithInputBox" or "SwitchWithSelect"
    sw_args,             \* the constructor arguments value and switch_value
    sw_pc,               \* "new", "composed" or "mounted" ("idle": not used)
    sw_value,            \* the reactive value
    sw_switch_value,     \* the reactive switch_value
    sw_toggle,           \* value of the TextSwitch shown
    sw_field,            \* value of the Input or Select shown
    sw_visible,          \* visibility of input_switch_input_box
    sw_posted,           \* the messages the control posted
    \* --- one pass of the loop of cache_file_patterns over a loaded file
    rw_pieces,           \* history: the parts the path of the file was loaded with
    rw_f,                \* the file object f: path, datatype, suffix
    rw_pc,               \* the line the loop stands at ("idle": not used)
    rw_routed,           \* where the pass has put the file
    \* --- init_anat_preproc_wf (pipeline/workflow/fmriprepwrapper/anat.py)
    gr_name,             \* the argument name
    gr_checks_inputs,    \* whether connect checks the input name of an identity node
    gr_pc,               \* "new", "check", "add", "done" or "raised" ("idle": not used)
    gr_call,             \* which of the three calls of workflow.connect runs
    gr_todo,             \* the connections the running call has still to visit
    gr_edges             \* the edges of the workflow graph

wd_vars == <<workdir, ctx_spec, database, cache, existing_spec, data_input_success,
             staged, selected_path, label, flags_to_show_tabs, tabs_shown,
             file_items, feature_widgets, screen_stack, queue, handler, workers,
             backups, crashed, hist>>

collect_vars == <<run_facts, collect_pc, bold_file_paths, bold_file_paths_dict,
                  bids_file_paths, bids_dict, todo_paths, todo_groups, log>>

fm_vars == <<fm_none, fm_suffix, fm_silent, fm_pc, fm_candidates, fm_pass1, fm_check,
             fm_log, fm_result>>

ev_vars == <<ev_source_sub, ev_files, ev_none, ev_listing, ev_pc, ev_result>>

gc_vars == <<gc_none, gc_events, gc_parse, gc_pc, gc_todo, gc_seen, gc_conditions, gc_parsed>>

md_vars == <<md_skip, md_filters, md_key, md_vals, md_matching, md_pc, md_is_first_run,
             md_should_skip, md_is_missing, md_choice, md_suggestion, md_views, md_asked,
             md_set_step, md_result, md_metadata>>

tb_vars == <<tb_task_conditions, tb_pc, tb_feature, tb_setting, tb_images_to_use,
             tb_confounds_options, tb_selected_images, tb_selected_confounds, tb_pending,
             tb_condition_values, tb_switches, tb_labels, tb_panel>>

\* The controls of the preprocessing panel of the task-based widget.
tb_controls == <<tb_switches, tb_labels, tb_panel>>

pp_vars == <<pp_global_settings, pp_pc, pp_via_algorithm, pp_recon_all, pp_edit_visible,
             pp_label, pp_shown, pp_input>>

sw_vars == <<sw_kind, sw_args, sw_pc, sw_value, sw_switch_value, sw_toggle, sw_field,
             sw_visible, sw_posted>>

rw_vars == <<rw_pieces, rw_f, rw_pc, rw_routed>>

gr_vars == <<gr_name, gr_checks_inputs, gr_pc, gr_call, gr_todo, gr_edges>>

ui_vars == <<tb_vars, pp_vars, sw_vars, rw_vars, gr_vars>>

vars == <<wd_vars, collect_vars, fm_vars, ev_vars, gc_vars, md_vars, ui_vars>>

\* What a step of one component leaves alone: the other components.
not_wd_vars == <<collect_vars, fm_vars, ev_vars, gc_vars, md_vars, ui_vars>>

not_collect_vars == <<wd_vars, fm_vars, ev_vars, gc_vars, md_vars, ui_vars>>

not_fm_vars == <<wd_vars, collect_vars, ev_vars, gc_vars, md_vars, ui_vars>>

not_ev_vars == <<wd_vars, collect_vars, fm_vars, gc_vars, md_vars, ui_vars>>

not_gc_vars == <<wd_vars, collect_vars, fm_vars, ev_vars, md_vars, ui_vars>>

not_md_vars == <<wd_vars, collect_vars, fm_vars, ev_vars, gc_vars, ui_vars>>

core_vars == <<wd_vars, collect_vars, fm_vars, ev_vars, gc_vars, md_vars>>

not_tb_vars == <<core_vars, pp_vars, sw_vars, rw_vars, gr_vars>>

not_pp_vars == <<core_vars, tb_vars, sw_vars, rw_vars, gr_vars>>

not_sw_vars == <<core_vars, tb_vars, pp_vars, rw_vars, gr_vars>>

not_rw_vars == <<core_vars, tb_vars, pp_vars, sw_vars, gr_vars>>

not_gr_vars == <<core_vars, tb_vars, pp_vars, sw_vars, rw_vars>>

-----------------------------------------------------------------------------
(* Bounds of the model. *)

\* How many times the user goes through the directory browser modal.
MaxBrowse == 2

\* How many task names the task-based widget offers.
MaxTasks == 2

\* How many confound entries besides "ICA-AROMA" the user toggles.
MaxConfounds == 1

\* The largest count the user types into the initial-volumes modal.
MaxCount == 2

\* How many messages a switch-with-input control posts at most.
MaxPosted == 3

\* How many files the metadata wizard resolves at most.
MaxMdFiles == 3

\* How many different values the metadata key has among the files.
MaxMdValue == 2

\* How often CheckMetadataStep asks the user in one run of the wizard.
MaxAsk == 2

\* How many BOLD runs the filter of get_conditions selects.
MaxCondRuns == 3

\* How many event files the database holds for the task.
MaxEvents == 2

\* How long the tuple the event association query returns is at most.
MaxListing == 3

\* How many field-map candidates the association query finds at most.
MaxFmaps == 3

\* How many BOLD runs the factories name as source files.
MaxRuns == 3

\* How many parts (placeholders and plain text) the path of a loaded file has.
MaxPieces == 2

\* The largest volume count of a run.
MaxNvol == 2

-----------------------------------------------------------------------------
(* Values. *)

\* Python's None.
PyNone == "PyNone"

\* An attribute that was never assigned: reading it raises AttributeError.
Unset == "unset"

\* Python's True and False, where a value may also be None or unassigned.
PyBool(b) == IF b THEN "True" ELSE "False"

\* The directories the user can choose: A and B hold a spec.json, N holds none.
SpecDirs == {"A", "B"}

Dirs == SpecDirs \cup {"N"}

\* Python's str(): None becomes the text "None".
Str(x) == IF x = PyNone THEN "None" ELSE x

File(path, datatype, suffix) == [path |-> path, datatype |-> datatype, suffix |-> suffix]

\* The specification documents on disk.  A: a non-BIDS BOLD image with an
\* events file and a task-based feature.  B: a BIDS dataset with an atlas
\* file and an atlas-based feature.
SpecDoc(d) ==
    IF d = "A"
    THEN [global_settings |-> "gsA",
          files    |-> << File("A/bold", "func", "bold"), File("A/events", "func", "events") >>,
          settings |-> << [name |-> "taskASetting", output_image |-> FALSE] >>,
          features |-> << [name |-> "taskA", type |-> "task_based", setting |-> "taskASetting"] >>,
          models   |-> << >>]
    ELSE [global_settings |-> "gsB",
          files    |-> << File("B/bids", "bids", "none"), File("B/atlas", "ref", "atlas") >>,
          settings |-> << [name |-> "atlasBSetting", output_image |-> FALSE] >>,
          features |-> << [name |-> "atlasB", type |-> "atlas_based", setting |-> "atlasBSetting"] >>,
          models   |-> << "modelB" >>]

\* load_spec(workdir): the specification of the directory, None when it holds none.
load_spec(path) == IF path \in SpecDirs THEN path ELSE PyNone

\* The Context of a fresh session: an empty specification.
EmptySpec == [global_settings |-> "default", files |-> << >>, settings |-> << >>,
              features |-> << >>, models |-> << >>]

\* The four lists of staged files; assigned is FALSE until cache_file_patterns
\* creates them.
NoStaged == [assigned |-> TRUE, events |-> << >>, atlas |-> << >>, seed |-> << >>, map |-> << >>]

UnsetStaged == [NoStaged EXCEPT !.assigned = FALSE]

Range(s) == { s[i] : i \in 1..Len(s) }

-----------------------------------------------------------------------------
(* Messages of the WorkDirectory and modal screens. *)

\* dir and recov are history: the directory a dialog was opened for, and
\* whether a cache population run ended in the no-usable-data recovery.
Msg(type, name, arg, dir, recov) ==
    [type |-> type, name |-> name, arg |-> arg, dir |-> dir, recov |-> recov]

Changed(path) == Msg("Changed", "file_browser", path, path, FALSE)

StateChanged(name, state, recov) == Msg("StateChanged", name, state, PyNone, recov)

Callback(fn, result, dir) == Msg("Callback", fn, result, dir, FALSE)

\* A modal screen: dir is the directory it was opened for, wid the worker
\* that awaits its result (0: a callback receives the result).
Modal(id, dir, wid) == [id |-> id, dir |-> dir, wid |-> wid]

Idle == [pc |-> "idle", phase |-> 0, rest |-> << >>]

-----------------------------------------------------------------------------
(* The initial state: the widget is mounted, nothing is selected. *)

InitHist ==
    [nBrowse        |-> 0,      \* browser modals the user went through
     nWorkers       |-> 0,      \* workers started
     nCacheSuccess  |-> 0,      \* cache_file_worker runs that reported SUCCESS
     nFeatStart     |-> 0,      \* mount_features runs started
     nFeatSuccess   |-> 0,      \* feature_worker runs that reported SUCCESS
     nPanelStart    |-> 0,      \* mount_file_panels runs started
     nPanelActive   |-> 0,      \* mount_file_panels runs started and not finished
     superseded     |-> FALSE,  \* a start cancelled a running instance of its stage
     nRecov         |-> 0,      \* no-usable-data recoveries carried out
     recovCleared   |-> FALSE,  \* the last recovery found widgets or cache entries
     afterRecovery  |-> FALSE,  \* a stage was started on the success of a recovery run
     overridden     |-> {},     \* directories whose override the user confirmed
     afterDecline   |-> FALSE,  \* the last user choice was a declined override
     lastLoaded     |-> PyNone] \* the specification the last Load copied

WdInit ==
    /\ workdir = PyNone
    /\ ctx_spec = EmptySpec
    /\ database = {}
    /\ cache = << >>
    /\ existing_spec = Unset
    /\ data_input_success = Unset
    /\ staged = UnsetStaged
    /\ selected_path = ""
    /\ label = ""
    /\ flags_to_show_tabs = [from_working_dir_tab |-> FALSE, from_input_data_tab |-> FALSE]
    /\ tabs_shown = FALSE
    /\ file_items = {}
    /\ feature_widgets = << >>
    /\ screen_stack = << >>
    /\ queue = << >>
    /\ handler = Idle
    /\ workers = << >>
    /\ backups = {}
    /\ crashed = FALSE
    /\ hist = InitHist

-----------------------------------------------------------------------------
(* The compact file browser. *)

\* FileBrowser.update_input with watch_selected_path: a value other than ""
\* is shown in the label and stored, as text, in the reactive selected_path;
\* a changed selected_path posts Changed, which bubbles to the WorkDirectory.
update_input(path) ==
    IF path # ""
    THEN [label |-> Str(path), selected_path |-> Str(path),
          posted |-> IF Str(path) # selected_path THEN << Changed(Str(path)) >> ELSE << >>]
    ELSE [label |-> label, selected_path |-> selected_path, posted |-> << >>]

\* The main screen takes input only while no modal screen covers it.
MainScreenActive == ~crashed /\ screen_stack = << >>

\* The user opens the directory browser modal and confirms a directory.
BrowseOk(path) ==
    /\ MainScreenActive
    /\ hist.nBrowse < MaxBrowse
    /\ LET u == update_input(path) IN
        /\ label' = u.label
        /\ selected_path' = u.selected_path
        /\ queue' = queue \o u.posted
    /\ hist' = [hist EXCEPT !.nBrowse = @ + 1, !.afterDecline = FALSE]
    /\ UNCHANGED <<workdir, ctx_spec, database, cache, existing_spec, data_input_success,
                   staged, flags_to_show_tabs, tabs_shown, file_items, feature_widgets,
                   screen_stack, handler, workers, backups, crashed>>
    /\ UNCHANGED not_wd_vars

\* The user opens the directory browser modal and cancels it: the modal is
\* dismissed with None, which is handed to update_input.
BrowseCancel ==
    /\ MainScreenActive
    /\ hist.nBrowse < MaxBrowse
    /\ LET u == update_input(PyNone) IN
        /\ label' = u.label
        /\ selected_path' = u.selected_path
        /\ queue' = queue \o u.posted
    /\ hist' = [hist EXCEPT !.nBrowse = @ + 1, !.afterDecline = FALSE]
    /\ UNCHANGED <<workdir, ctx_spec, database, cache, existing_spec, data_input_success,
                   staged, flags_to_show_tabs, tabs_shown, file_items, feature_widgets,
                   screen_stack, handler, workers, backups, crashed>>
    /\ UNCHANGED not_wd_vars

-----------------------------------------------------------------------------
(* Workers. *)

Worker(wid, name) ==
    [wid |-> wid, name |-> name, pc |-> "start", spec |-> PyNone, i |-> 0,
     pending |-> << >>, res |-> Unset]

Without(s, k) == SubSeq(s, 1, k - 1) \o SubSeq(s, k + 1, Len(s))

\* A start that leaves the running workers alone.
NonExclusiveStart(ws, w) ==
    [workers |-> Append(ws, w),
     posted  |-> << StateChanged(w.name, "RUNNING", FALSE) >>,
     cancelled |-> {}]

\* @work(exclusive=True): the start cancels the workers of the widget that
\* run in the same group; no group is given, so both named workers are in the
\* group "default".  A cancelled worker runs no further code.
ExclusiveStart(ws, w) ==
    [workers |-> << w >>,
     posted  |-> [k \in 1..Len(ws) |-> StateChanged(ws[k].name, "CANCELLED", FALSE)]
                 \o << StateChanged(w.name, "RUNNING", FALSE) >>,
     cancelled |-> Range(ws)]

\* The worker at position k ends: its SUCCESS is posted to the widget.
Finished(ws, k, recov) ==
    [workers |-> Without(ws, k),
     posted  |-> << StateChanged(ws[k].name, "SUCCESS", recov) >>]

HistStart(h, name, cancelled) ==
    [h EXCEPT !.nWorkers = @ + 1,
              !.nFeatStart = IF name = "feature_worker" THEN @ + 1 ELSE @,
              !.superseded = @ \/ (\E c \in cancelled : c.name = name)]

HistFinish(h, name) ==
    [h EXCEPT !.nCacheSuccess = IF name = "cache_file_worker" THEN @ + 1 ELSE @,
              !.nFeatSuccess = IF name = "feature_worker" THEN @ + 1 ELSE @]

-----------------------------------------------------------------------------
(* The WorkDirectory's handlers of the browser and of the two dialogs. *)

\* The handler takes the next message when the one before has returned.
CanHandle(type) ==
    /\ ~crashed
    /\ handler.pc = "idle"
    /\ queue # << >>
    /\ Head(queue).type = type

\* app.show_hidden_tabs and app.hide_tabs.
show_hidden_tabs(flags) == flags.from_working_dir_tab \/ flags.from_input_data_tab

hide_tabs == FALSE

\* The values a Confirm dialog is dismissed with.
DialogResults == {"True", "False"}

Top == screen_stack[Len(screen_stack)]

Pop == SubSeq(screen_stack, 1, Len(screen_stack) - 1)

\* _on_file_browser_changed: the directory becomes the working directory and
\* is searched for a specification; one that is found opens the Load or
\* Override dialog.
OnFileBrowserChanged ==
    /\ CanHandle("Changed")
    /\ LET m == Head(queue) IN
        /\ flags_to_show_tabs' = [flags_to_show_tabs EXCEPT !.from_working_dir_tab = TRUE]
        /\ tabs_shown' = show_hidden_tabs(flags_to_show_tabs')
        /\ workdir' = m.arg
        /\ existing_spec' = load_spec(m.arg)
        /\ screen_stack' = IF existing_spec' # PyNone
                           THEN Append(screen_stack, Modal("confirm_spec_load_modal", m.arg, 0))
                           ELSE screen_stack
    /\ queue' = Tail(queue)
    /\ UNCHANGED <<ctx_spec, database, cache, data_input_success, staged, selected_path,
                   label, file_items, feature_widgets, handler, workers, backups, crashed,
                   hist>>
    /\ UNCHANGED not_wd_vars

\* The user answers the dialog on top, "Spec file found" or the
\* reconfirmation of the override: the dialog is popped and its callback is
\* handed to the WorkDirectory with the result.
AnswerConfirm(result) ==
    /\ ~crashed
    /\ screen_stack # << >>
    /\ Top.id \in {"confirm_spec_load_modal", "confirm_override_spec_file_modal"}
    /\ screen_stack' = Pop
    /\ queue' = Append(queue,
                       Callback(IF Top.id = "confirm_spec_load_modal"
                                THEN "existing_spec_file_decision"
                                ELSE "working_directory_override", result, Top.dir))
    /\ hist' = [hist EXCEPT !.afterDecline = FALSE]
    /\ UNCHANGED <<workdir, ctx_spec, database, cache, existing_spec, data_input_success,
                   staged, selected_path, label, flags_to_show_tabs, tabs_shown, file_items,
                   feature_widgets, handler, workers, backups, crashed>>
    /\ UNCHANGED not_wd_vars

\* ctx.put(fileobj): the file object is added to the specification's files
\* and registered in the database.
ctx_put(files, fileobj) == Append(files, fileobj)

RECURSIVE PutAll(_, _)
PutAll(files, loaded) ==
    IF loaded = << >> THEN files
    ELSE PutAll(ctx_put(files, Head(loaded)), Tail(loaded))

\* load_from_spec, up to the start of cache_file_patterns: the five fields of
\* the existing specification are copied into the Context.
load_from_spec(spec, doc) ==
    [global_settings |-> doc.global_settings,
     files           |-> PutAll(spec.files, doc.files),
     settings        |-> doc.settings,
     features        |-> doc.features,
     models          |-> doc.models]

\* existing_spec_file_decision: Load copies the specification and starts the
\* cache population; Override opens the reconfirmation dialog.
ExistingSpecFileDecision ==
    /\ CanHandle("Callback")
    /\ Head(queue).name = "existing_spec_file_decision"
    /\ LET m == Head(queue)
           load == m.arg = "True" /\ existing_spec # PyNone
           s == ExclusiveStart(workers, Worker(hist.nWorkers + 1, "cache_file_worker"))
       IN
        /\ ctx_spec' = IF load THEN load_from_spec(ctx_spec, SpecDoc(existing_spec)) ELSE ctx_spec
        /\ database' = IF load THEN database \cup Range(SpecDoc(existing_spec).files) ELSE database
        /\ workers' = IF load THEN s.workers ELSE workers
        /\ queue' = IF load THEN Tail(queue) \o s.posted ELSE Tail(queue)
        /\ screen_stack' = IF m.arg = "True" THEN screen_stack
                           ELSE Append(screen_stack,
                                       Modal("confirm_override_spec_file_modal", m.dir, 0))
        /\ hist' = IF load
                   THEN [HistStart(hist, "cache_file_worker", s.cancelled)
                            EXCEPT !.lastLoaded = existing_spec]
                   ELSE hist
    /\ UNCHANGED <<workdir, cache, existing_spec, data_input_success, staged, selected_path,
                   label, flags_to_show_tabs, tabs_shown, file_items, feature_widgets, handler,
                   backups, crashed>>
    /\ UNCHANGED not_wd_vars

\* copy_and_rename_file(<workdir>/spec.json): a timestamped copy of the file,
\* which exists in the directories that hold a specification.
copy_and_rename_file(dir) == backups \cup ({dir} \cap SpecDirs)

\* working_directory_override: a confirmed override makes the backup copy if
\* the working directory is set; a declined one clears the browser and
\* unsets the working directory.
WorkingDirectoryOverride ==
    /\ CanHandle("Callback")
    /\ Head(queue).name = "working_directory_override"
    /\ LET m == Head(queue)
           u == update_input(PyNone)
       IN
        IF m.arg = "True"
        THEN /\ backups' = IF workdir # PyNone THEN copy_and_rename_file(workdir) ELSE backups
             /\ queue' = Tail(queue)
             /\ hist' = [hist EXCEPT !.overridden = @ \cup {m.dir}]
             /\ UNCHANGED <<workdir, label, selected_path>>
        ELSE /\ label' = u.label
             /\ selected_path' = u.selected_path
             /\ queue' = Tail(queue) \o u.posted
             /\ workdir' = PyNone
             /\ hist' = [hist EXCEPT !.afterDecline = TRUE]
             /\ UNCHANGED backups
    /\ UNCHANGED <<ctx_spec, database, cache, existing_spec, data_input_success, staged,
                   flags_to_show_tabs, tabs_shown, file_items, feature_widgets, screen_stack,
                   handler, workers, crashed>>
    /\ UNCHANGED not_wd_vars

-----------------------------------------------------------------------------
(* (a) Cache population: cache_file_patterns, the cache_file_worker. *)

\* ctx.cache[key][kind] = value: the entries keep the order of their creation.
CachePut(c, key, kind) == IF <<key, kind>> \in Range(c) THEN c ELSE Append(c, <<key, kind>>)

\* The loop over the files of the specification from file i on, up to the
\* next await (the creation of the file-entry widget of a BOLD or T1w image)
\* or to the end of the loop.
RECURSIVE CacheLoop(_, _, _, _)
CacheLoop(files, i, c, st) ==
    IF i > Len(files) THEN [i |-> i, cache |-> c, staged |-> st]
    ELSE LET f == files[i] IN
         IF f.datatype = "bids" THEN CacheLoop(files, i + 1, CachePut(c, "bids", "files"), st)
         ELSE IF f.suffix \in {"bold", "T1w"} THEN [i |-> i, cache |-> c, staged |-> st]
         ELSE IF f.suffix = "events"
              THEN CacheLoop(files, i + 1, c, [st EXCEPT !.events = Append(@, f)])
         ELSE IF f.suffix = "atlas"
              THEN CacheLoop(files, i + 1, c, [st EXCEPT !.atlas = Append(@, f)])
         ELSE IF f.suffix = "seed"
              THEN CacheLoop(files, i + 1, c, [st EXCEPT !.seed = Append(@, f)])
         ELSE IF f.suffix = "map"
              THEN CacheLoop(files, i + 1, c, [st EXCEPT !.map = Append(@, f)])
         ELSE CacheLoop(files, i + 1, c, st)

\* The loop stopped at r: at an await, or at its end, where the available
\* images are refreshed.  Without images the error dialog is pushed and
\* awaited; with images the run is marked successful and ends.
CacheAfterLoop(k, w, r, items) ==
    /\ cache' = r.cache
    /\ staged' = r.staged
    /\ file_items' = items
    /\ IF r.i <= Len(SpecDoc(w.spec).files)
       THEN /\ workers' = [workers EXCEPT ![k] = [w EXCEPT !.pc = "add_image", !.i = r.i]]
            /\ UNCHANGED <<data_input_success, screen_stack, queue, hist>>
       ELSE \E no_images \in BOOLEAN :
            IF no_images
            THEN /\ workers' = [workers EXCEPT ![k] = [w EXCEPT !.pc = "push_screen_wait"]]
                 /\ screen_stack' = Append(screen_stack,
                        Modal("input_data_directory_error_modal", PyNone, w.wid))
                 /\ UNCHANGED <<data_input_success, queue, hist>>
            ELSE /\ data_input_success' = "True"
                 /\ workers' = Finished(workers, k, FALSE).workers
                 /\ queue' = queue \o Finished(workers, k, FALSE).posted
                 /\ hist' = HistFinish(hist, w.name)
                 /\ UNCHANGED screen_stack
    /\ UNCHANGED <<workdir, selected_path, label, flags_to_show_tabs, tabs_shown>>

\* The worker runs up to its first await; with no specification it has
\* nothing to do and ends.
CacheStart(k, w) ==
    /\ w.pc = "start"
    /\ IF existing_spec = PyNone
       THEN /\ workers' = Finished(workers, k, FALSE).workers
            /\ queue' = queue \o Finished(workers, k, FALSE).posted
            /\ hist' = HistFinish(hist, w.name)
            /\ UNCHANGED <<cache, staged, file_items, data_input_success, screen_stack,
                           workdir, selected_path, label, flags_to_show_tabs, tabs_shown>>
       ELSE LET w1 == [w EXCEPT !.spec = existing_spec]
            IN  CacheAfterLoop(k, w1,
                    CacheLoop(SpecDoc(existing_spec).files, 1, cache, NoStaged), file_items)

\* The file-entry widget exists: it is registered in the cache and the loop
\* goes on.
CacheResume(k, w) ==
    /\ w.pc = "add_image"
    /\ LET files == SpecDoc(w.spec).files
           f == files[w.i]
       IN  CacheAfterLoop(k, w,
               CacheLoop(files, w.i + 1, CachePut(cache, f.path, "files"), staged),
               file_items \cup {f.path})

\* A recovery that leaves the staging cache as it is.
StaleCache == cache

\* ctx.cache = defaultdict(lambda: defaultdict(dict))
EmptyCache == << >>

\* The error dialog was acknowledged: the result is kept as the success
\* mark, the inputs are reset, and the run ends.
CacheRecover(k, w) ==
    /\ w.pc = "push_screen_wait"
    /\ w.res # Unset
    /\ data_input_success' = w.res
    /\ file_items' = {}
    /\ cache' = EmptyCache
    /\ flags_to_show_tabs' = [from_working_dir_tab |-> FALSE, from_input_data_tab |-> FALSE]
    /\ tabs_shown' = hide_tabs
    /\ label' = update_input("").label
    /\ selected_path' = update_input("").selected_path
    /\ workdir' = PyNone
    /\ workers' = Finished(workers, k, TRUE).workers
    /\ queue' = queue \o update_input("").posted \o Finished(workers, k, TRUE).posted
    /\ hist' = [HistFinish(hist, w.name) EXCEPT
                   !.nRecov = @ + 1,
                   !.recovCleared = file_items # {} /\ cache # << >>]
    /\ UNCHANGED <<staged, screen_stack>>

CacheFilePatterns ==
    /\ ~crashed
    /\ \E k \in 1..Len(workers) :
        /\ workers[k].name = "cache_file_worker"
        /\ \/ CacheStart(k, workers[k])
           \/ CacheResume(k, workers[k])
           \/ CacheRecover(k, workers[k])
    /\ UNCHANGED <<ctx_spec, database, existing_spec, feature_widgets, handler, backups,
                   crashed>>
    /\ UNCHANGED not_wd_vars

\* The user acknowledges the error dialog on top: the worker that awaits it,
\* if it still runs, receives the result.
AcknowledgeError(result) ==
    /\ ~crashed
    /\ screen_stack # << >>
    /\ Top.id = "input_data_directory_error_modal"
    /\ screen_stack' = Pop
    /\ workers' = [k \in 1..Len(workers) |->
                      IF workers[k].wid = Top.wid /\ workers[k].pc = "push_screen_wait"
                      THEN [workers[k] EXCEPT !.res = result]
                      ELSE workers[k]]
    /\ hist' = [hist EXCEPT !.afterDecline = FALSE]
    /\ UNCHANGED <<workdir, ctx_spec, database, cache, existing_spec, data_input_success,
                   staged, selected_path, label, flags_to_show_tabs, tabs_shown, file_items,
                   feature_widgets, queue, handler, backups, crashed>>
    /\ UNCHANGED not_wd_vars

-----------------------------------------------------------------------------
(* (b) Feature materialization: mount_features, the feature_worker. *)

\* The feature a setting belongs to: setting_feature_map[setting["name"]].
FeatureOfSetting(doc, setting) ==
    (CHOOSE f \in Range(doc.features) : f.setting = setting.name).name

RECURSIVE CacheFeatures(_, _)
CacheFeatures(c, features) ==
    IF features = << >> THEN c
    ELSE CacheFeatures(CachePut(c, Head(features).name, "features"), Tail(features))

\* A setting of a feature goes under the feature's key; an output-image
\* setting gets a key of its own, with an empty "features" entry.
RECURSIVE CacheSettings(_, _, _)
CacheSettings(c, doc, settings) ==
    IF settings = << >> THEN c
    ELSE LET s == Head(settings) IN
         CacheSettings(CachePut(c, IF s.output_image THEN s.name ELSE FeatureOfSetting(doc, s),
                                "settings"),
                       doc, Tail(settings))

\* The keys of the cache that hold a feature, in the order of the cache.
RECURSIVE FeatureKeys(_)
FeatureKeys(c) ==
    IF c = << >> THEN << >>
    ELSE IF Head(c)[2] = "features" THEN << Head(c)[1] >> \o FeatureKeys(Tail(c))
    ELSE FeatureKeys(Tail(c))

\* ctx.cache[name]["features"]["type"].
FeatureType(name) ==
    (CHOOSE f \in UNION { Range(SpecDoc(d).features) : d \in SpecDirs } : f.name = name).type

FeatureEnd(k, w) ==
    /\ workers' = Finished(workers, k, FALSE).workers
    /\ queue' = queue \o Finished(workers, k, FALSE).posted
    /\ hist' = HistFinish(hist, w.name)

\* The cache entries of the features and settings are rebuilt from the
\* existing specification; then one widget is created, and awaited, for
\* every feature in the cache.
FeatureStart(k, w) ==
    /\ w.pc = "start"
    /\ IF existing_spec = PyNone
       THEN /\ FeatureEnd(k, w)
            /\ UNCHANGED cache
       ELSE LET doc == SpecDoc(existing_spec)
                c == CacheSettings(CacheFeatures(cache, doc.features), doc, doc.settings)
            IN  /\ cache' = c
                /\ IF FeatureKeys(c) = << >>
                   THEN FeatureEnd(k, w)
                   ELSE /\ workers' = [workers EXCEPT ![k] =
                              [w EXCEPT !.pc = "add_new_feature", !.pending = FeatureKeys(c)]]
                        /\ UNCHANGED <<queue, hist>>
    /\ UNCHANGED feature_widgets

\* The widget of the first pending feature exists; the next one is created.
FeatureResume(k, w) ==
    /\ w.pc = "add_new_feature"
    /\ feature_widgets' = Append(feature_widgets,
           [type |-> FeatureType(Head(w.pending)), name |-> Head(w.pending)])
    /\ IF Tail(w.pending) = << >>
       THEN FeatureEnd(k, w)
       ELSE /\ workers' = [workers EXCEPT ![k] = [w EXCEPT !.pending = Tail(w.pending)]]
            /\ UNCHANGED <<queue, hist>>
    /\ UNCHANGED cache

MountFeatures ==
    /\ ~crashed
    /\ \E k \in 1..Len(workers) :
        /\ workers[k].name = "feature_worker"
        /\ \/ FeatureStart(k, workers[k])
           \/ FeatureResume(k, workers[k])
    /\ UNCHANGED <<workdir, ctx_spec, database, existing_spec, data_input_success, staged,
                   selected_path, label, flags_to_show_tabs, tabs_shown, file_items,
                   screen_stack, handler, backups, crashed>>
    /\ UNCHANGED not_wd_vars

-----------------------------------------------------------------------------
(* (c) File-panel materialization: mount_file_panels, awaited by the handler *)
(* of the worker state changes.                                            *)

PhaseList(st, phase) ==
    CASE phase = 1 -> st.events
      [] phase = 2 -> st.atlas
      [] phase = 3 -> st.seed
      [] OTHER     -> st.map

\* The feature widget type whose panel takes the files of a phase.
PhaseType(phase) ==
    CASE phase = 1 -> "task_based"
      [] phase = 2 -> "atlas_based"
      [] phase = 3 -> "seed_based"
      [] OTHER     -> "dual_reg"

LastPhase == 4

\* The four loops from the files `rest` of loop `phase` on, up to the next
\* await (the creation of a file-entry widget) or to the end.  The panel is
\* taken from the first feature widget of the type: with none, the index
\* [0] raises.
RECURSIVE PanelsLoop(_, _, _, _)
PanelsLoop(phase, rest, st, widgets) ==
    IF rest # << >>
    THEN IF \E x \in Range(widgets) : x.type = PhaseType(phase)
         THEN [pc |-> "create_file_item", phase |-> phase, rest |-> rest]
         ELSE [pc |-> "IndexError", phase |-> phase, rest |-> rest]
    ELSE IF phase = LastPhase THEN Idle
    ELSE PanelsLoop(phase + 1, PhaseList(st, phase + 1), st, widgets)

\* mount_file_panels from its first line.
PanelsStart(st, widgets) ==
    IF st.assigned THEN PanelsLoop(1, st.events, st, widgets)
    ELSE [pc |-> "AttributeError", phase |-> 1, rest |-> << >>]

\* A handler that reacts to every state change.
AnyState(state) == TRUE

\* event.state == WorkerState.SUCCESS
IsSuccess(state) == state = "SUCCESS"

\* on_worker_state_changed.  A SUCCESS of the cache_file_worker starts
\* mount_features if data_input_success is True; a SUCCESS of the
\* feature_worker runs mount_file_panels, which the handler awaits.
OnWorkerStateChanged ==
    /\ CanHandle("StateChanged")
    /\ LET m == Head(queue)
           s == ExclusiveStart(workers, Worker(hist.nWorkers + 1, "feature_worker"))
           p == PanelsStart(staged, feature_widgets)
       IN
        IF IsSuccess(m.arg) /\ m.name = "cache_file_worker"
        THEN IF data_input_success = Unset
             THEN /\ crashed' = TRUE
                  /\ queue' = Tail(queue)
                  /\ UNCHANGED <<workers, handler, hist>>
             ELSE IF data_input_success = "True"
             THEN /\ workers' = s.workers
                  /\ queue' = Tail(queue) \o s.posted
                  /\ hist' = [HistStart(hist, "feature_worker", s.cancelled)
                                 EXCEPT !.afterRecovery = @ \/ m.recov]
                  /\ UNCHANGED <<handler, crashed>>
             ELSE /\ queue' = Tail(queue)
                  /\ UNCHANGED <<workers, handler, crashed, hist>>
        ELSE IF IsSuccess(m.arg) /\ m.name = "feature_worker"
        THEN /\ queue' = Tail(queue)
             /\ handler' = IF p.pc \in {"IndexError", "AttributeError"} THEN Idle ELSE p
             /\ crashed' = (p.pc \in {"IndexError", "AttributeError"})
             /\ hist' = [hist EXCEPT !.nPanelStart = @ + 1,
                                     !.nPanelActive = IF p.pc = "create_file_item"
                                                      THEN @ + 1 ELSE @]
             /\ UNCHANGED workers
        ELSE /\ queue' = Tail(queue)
             /\ UNCHANGED <<workers, handler, crashed, hist>>
    /\ UNCHANGED <<workdir, ctx_spec, database, cache, existing_spec, data_input_success,
                   staged, selected_path, label, flags_to_show_tabs, tabs_shown, file_items,
                   feature_widgets, screen_stack, backups>>
    /\ UNCHANGED not_wd_vars

\* The file-entry widget awaited by mount_file_panels exists: it is
\* registered in the cache and the loops go on; after the last one the
\* handler returns.
MountFilePanels ==
    /\ ~crashed
    /\ handler.pc = "create_file_item"
    /\ LET f == Head(handler.rest)
           p == PanelsLoop(handler.phase, Tail(handler.rest), staged, feature_widgets)
       IN
        /\ file_items' = file_items \cup {f.path}
        /\ cache' = CachePut(cache, f.path, "files")
        /\ handler' = IF p.pc = "IndexError" THEN Idle ELSE p
        /\ crashed' = (p.pc = "IndexError")
        /\ hist' = [hist EXCEPT !.nPanelActive = IF p.pc = "create_file_item" THEN @ ELSE @ - 1]
    /\ UNCHANGED <<workdir, ctx_spec, database, existing_spec, data_input_success, staged,
                   selected_path, label, flags_to_show_tabs, tabs_shown, feature_widgets,
                   screen_stack, queue, workers, backups>>
    /\ UNCHANGED not_wd_vars

-----------------------------------------------------------------------------
(* The working-directory manager as a whole. *)

WdNext ==
    \/ \E path \in Dirs : BrowseOk(path)
    \/ BrowseCancel
    \/ OnFileBrowserChanged
    \/ \E result \in DialogResults : AnswerConfirm(result)
    \/ ExistingSpecFileDecision
    \/ WorkingDirectoryOverride
    \/ CacheFilePatterns
    \/ \E result \in DialogResults : AcknowledgeError(result)
    \/ MountFeatures
    \/ OnWorkerStateChanged
    \/ MountFilePanels

-----------------------------------------------------------------------------
(* halfpipe/ingest/collect.py: collect_bold_files.  A run is named by its
   rank in the alphabetical order of the paths, so sorted(...)[-1] is the
   largest number.  The lists the mapping holds are cut to the run and its
   anatomical scans; field maps and sbrefs only extend them. *)

Runs == 1..MaxRuns

\* The canonical BIDS paths the runs' tags can produce.
BidsPaths == {"x", "y"}

\* What the anatomical association query of a run finds: no value, an empty
\* result, a T1w scan, or only an anatomical scan of another suffix.
AnatKinds == {"None", "empty", "T1w", "T2w"}

RunFacts == [bids : BidsPaths, nvol : 1..MaxNvol, anat : AnatKinds]

\* database.associations(bold_file_path, datatype="anat", sub=sub)
associations(p) ==
    [none |-> run_facts[p].anat = "None",
     files |-> IF run_facts[p].anat \in {"T1w", "T2w"} THEN << run_facts[p].anat >> ELSE << >>]

nvol(p) == run_facts[p].nvol

\* BidsDatabase.put: registers the run under its canonical path, and raises
\* if another file already has that path.
BidsPut(db, p) ==
    LET b == run_facts[p].bids IN
    IF \E e \in db : e[1] = b /\ e[2] # p
      THEN [raised |-> TRUE, db |-> db]
      ELSE [raised |-> FALSE, db |-> db \cup {<<b, p>>}]

\* BidsDatabase.to_bids
to_bids(db, p) == CHOOSE b \in BidsPaths : <<b, p>> \in db

SetMax(S) == CHOOSE x \in S : \A y \in S : y <= x

Restrict(f, S) == [x \in S |-> f[x]]

CollectIdle ==
    /\ run_facts = << >>
    /\ collect_pc = "idle"
    /\ bold_file_paths = {}
    /\ bold_file_paths_dict = << >>
    /\ bids_file_paths = {}
    /\ bids_dict = {}
    /\ todo_paths = {}
    /\ todo_groups = {}
    /\ log = << >>

\* The call: the source files of the two factories, nothing computed yet.
CollectInit ==
    /\ run_facts \in [Runs -> RunFacts]
    /\ collect_pc = "filter"
    /\ bold_file_paths = Runs
    /\ bold_file_paths_dict = << >>
    /\ bids_file_paths = {}
    /\ bids_dict = {}
    /\ todo_paths = {}
    /\ todo_groups = {}
    /\ log = << >>

\* Lines 151-179: the runs with an anatomical association are kept.
CollectFilter ==
    /\ collect_pc = "filter"
    /\ LET kept == { p \in bold_file_paths : ~associations(p).none } IN
        /\ bold_file_paths_dict' = [p \in kept |-> <<"bold">> \o associations(p).files]
        /\ bold_file_paths' = bold_file_paths \cap kept
        /\ todo_paths' = bold_file_paths \cap kept
    /\ collect_pc' = "canonicalize"
    /\ UNCHANGED <<run_facts, bids_file_paths, bids_dict, todo_groups, log>>
    /\ UNCHANGED not_collect_vars

\* Lines 184-198: one iteration over the set bold_file_paths, in any order.
CollectCanonicalize ==
    /\ collect_pc = "canonicalize"
    /\ IF todo_paths = {}
         THEN /\ collect_pc' = "resolve"
              /\ todo_groups' = { e[1] : e \in bids_dict }
              /\ UNCHANGED <<bids_file_paths, bids_dict, todo_paths>>
         ELSE /\ \E p \in todo_paths :
                    LET r == BidsPut(bids_file_paths, p) IN
                    /\ todo_paths' = todo_paths \ {p}
                    /\ bids_file_paths' = r.db
                    /\ bids_dict' = IF r.raised THEN bids_dict
                                    ELSE bids_dict \cup {<<to_bids(r.db, p), p>>}
              /\ UNCHANGED <<collect_pc, todo_groups>>
    /\ UNCHANGED <<run_facts, bold_file_paths, bold_file_paths_dict, log>>
    /\ UNCHANGED not_collect_vars

\* Lines 209-226: the run a group keeps.
Selected(bold_file_pathset) ==
    LET max_nvol == SetMax({ nvol(p) : p \in bold_file_pathset })
        selected == { p \in bold_file_pathset : nvol(p) = max_nvol }
    IN  IF Cardinality(selected) > 1 THEN SetMax(selected)
        ELSE CHOOSE p \in selected : TRUE

\* Lines 228-249: the warning; last is the run the loop of line 236 ended on.
Warning(bold_file_pathset, last) ==
    LET max_nvol == SetMax({ nvol(p) : p \in bold_file_pathset }) IN
    [selected  |-> Selected(bold_file_pathset),
     excluded  |-> bold_file_pathset \ {Selected(bold_file_pathset)},
     criterion |-> IF nvol(last) < max_nvol
                     THEN "Image with the longest duration"
                     ELSE "Last image when sorting alphabetically"]

\* Lines 200-255: one iteration over bids_dict.values().
CollectResolve ==
    /\ collect_pc = "resolve"
    /\ IF todo_groups = {}
         THEN /\ collect_pc' = "return"
              /\ UNCHANGED <<todo_groups, bold_file_paths_dict, log>>
         ELSE /\ \E b \in todo_groups :
                    LET bold_file_pathset == { e[2] : e \in { d \in bids_dict : d[1] = b } } IN
                    /\ todo_groups' = todo_groups \ {b}
                    /\ IF Cardinality(bold_file_pathset) = 1
                         THEN UNCHANGED <<bold_file_paths_dict, log>>
                         ELSE /\ \E last \in bold_file_pathset :
                                    log' = Append(log, Warning(bold_file_pathset, last))
                              /\ bold_file_paths_dict' =
                                    Restrict(bold_file_paths_dict,
                                             (DOMAIN bold_file_paths_dict \ bold_file_pathset)
                                                \cup {Selected(bold_file_pathset)})
              /\ UNCHANGED collect_pc
    /\ UNCHANGED <<run_facts, bold_file_paths, bids_file_paths, bids_dict, todo_paths>>
    /\ UNCHANGED not_collect_vars

\* Line 257
CollectReturn ==
    /\ collect_pc = "return"
    /\ collect_pc' = "done"
    /\ UNCHANGED <<run_facts, bold_file_paths, bold_file_paths_dict, bids_file_paths,
                   bids_dict, todo_paths, todo_groups, log>>
    /\ UNCHANGED not_collect_vars

CollectNext ==
    \/ CollectFilter
    \/ CollectCanonicalize
    \/ CollectResolve
    \/ CollectReturn

-----------------------------------------------------------------------------
(* halfpipe/ingest/collect.py: collect_fieldmaps.  A candidate is named by
   its rank in the alphabetical order of the paths. *)

\* The suffix tag of a field-map candidate; "None" is an unset tag.
FmSuffixes == {"magnitude", "magnitude1", "magnitude2", "phase1", "phase2", "phasediff",
               "fieldmap", "epi", "None"}

\* magnitude_map (lines 85-90): the magnitude suffixes a phase map needs.
\* A suffix that is not a key needs none.
magnitude_map(suffix) ==
    CASE suffix \in {"phase1", "phase2", "phasediff"} -> {"magnitude1", "magnitude2"}
      [] suffix = "fieldmap" -> {"magnitude"}
      [] OTHER -> {}

InMagnitudeMap(suffix) == suffix \in {"phase1", "phase2", "phasediff", "fieldmap"}

\* A map that counts as complete whatever the candidates are.
AlwaysHasMagnitude(candidates, c) == TRUE

\* Lines 99-101: any(database.tagval(c, "suffix") in magnitude for c in candidates)
has_magnitude(candidates, c) ==
    \E d \in candidates : fm_suffix[d] \in magnitude_map(fm_suffix[c])

\* Lines 92-103: the candidates without their magnitude images.
Incomplete(candidates) ==
    { c \in candidates : InMagnitudeMap(fm_suffix[c]) /\ ~has_magnitude(candidates, c) }

\* Lines 115-121: the candidates of epi_fmaps.
EpiFmaps(candidates) == { c \in candidates : fm_suffix[c] = "epi" }

\* A rejection that removes nothing.
KeepEpi(candidates) == {}

\* Line 127: incomplete = set(c for c, _ in epi_fmaps)
RejectedFmaps(candidates) == EpiFmaps(candidates)

\* sorted(S): the ascending list of the elements of S.
RECURSIVE Sorted(_)
Sorted(S) ==
    IF S = {} THEN << >>
    ELSE LET m == CHOOSE x \in S : \A y \in S : x <= y
         IN  << m >> \o Sorted(S \ {m})

FmIdle ==
    /\ fm_none = FALSE
    /\ fm_suffix = << >>
    /\ fm_silent = FALSE
    /\ fm_pc = "idle"
    /\ fm_candidates = {}
    /\ fm_pass1 = {}
    /\ fm_check = "none"
    /\ fm_log = << >>
    /\ fm_result = << >>

\* The call: what the database holds for the BOLD file.
FmInit ==
    /\ fm_none \in BOOLEAN
    /\ fm_suffix \in UNION { [1..n -> FmSuffixes] : n \in 0..MaxFmaps }
    /\ fm_none => fm_suffix = << >>
    /\ fm_silent \in BOOLEAN
    /\ fm_pc = "query"
    /\ fm_candidates = {}
    /\ fm_pass1 = {}
    /\ fm_check = "none"
    /\ fm_log = << >>
    /\ fm_result = << >>

\* Lines 70-82: the association query; None ends the call with an empty list.
FmQuery ==
    /\ fm_pc = "query"
    /\ IF fm_none
         THEN /\ fm_pc' = "done"
              /\ UNCHANGED fm_candidates
         ELSE /\ fm_pc' = "magnitude"
              /\ fm_candidates' = DOMAIN fm_suffix
    /\ UNCHANGED <<fm_none, fm_suffix, fm_silent, fm_pass1, fm_check, fm_log, fm_result>>
    /\ UNCHANGED not_fm_vars

\* Lines 84-112: the completeness pass.  The assert of line 95 fails on a
\* candidate without a suffix.
FmMagnitude ==
    /\ fm_pc = "magnitude"
    /\ IF \E c \in fm_candidates : fm_suffix[c] = "None"
         THEN /\ fm_pc' = "AssertionError"
              /\ UNCHANGED <<fm_candidates, fm_pass1, fm_log>>
         ELSE /\ fm_pc' = "pepolar"
              /\ fm_candidates' = fm_candidates \ Incomplete(fm_candidates)
              /\ fm_pass1' = fm_candidates \ Incomplete(fm_candidates)
              /\ fm_log' = IF Incomplete(fm_candidates) # {} /\ ~fm_silent
                             THEN Append(fm_log, [why |-> "missing magnitude images",
                                                  files |-> Sorted(Incomplete(fm_candidates))])
                             ELSE fm_log
    /\ UNCHANGED <<fm_none, fm_suffix, fm_silent, fm_check, fm_result>>
    /\ UNCHANGED not_fm_vars

\* Lines 114-136: the pepolar pass and the return.  check_pes is external:
\* it accepts the pairing or raises ValueError.
FmPepolar ==
    /\ fm_pc = "pepolar"
    /\ fm_pc' = "done"
    /\ IF EpiFmaps(fm_candidates) = {}
         THEN /\ fm_result' = Sorted(fm_candidates)
              /\ UNCHANGED <<fm_candidates, fm_check, fm_log>>
         ELSE \E outcome \in {"accept", "ValueError"} :
              /\ fm_check' = outcome
              /\ IF outcome = "ValueError"
                   THEN /\ fm_candidates' = fm_candidates \ RejectedFmaps(fm_candidates)
                        /\ fm_result' = Sorted(fm_candidates \ RejectedFmaps(fm_candidates))
                        /\ fm_log' = IF ~fm_silent
                                       THEN Append(fm_log,
                                              [why |-> "unmatched phase encoding directions",
                                               files |-> Sorted(RejectedFmaps(fm_candidates))])
                                       ELSE fm_log
                   ELSE /\ fm_result' = Sorted(fm_candidates)
                        /\ UNCHANGED <<fm_candidates, fm_log>>
    /\ UNCHANGED <<fm_none, fm_suffix, fm_silent, fm_pass1>>
    /\ UNCHANGED not_fm_vars

FmNext ==
    \/ FmQuery
    \/ FmMagnitude
    \/ FmPepolar

-----------------------------------------------------------------------------
(* halfpipe/ingest/collect.py: collect_events.  An event file is named by
   its rank in the alphabetical order of the paths.  The query of lines
   21-26 constrains the task, so every candidate has the task of the source
   file. *)

\* The tags of an event file: its subject ("None" if unset), its extension,
\* and its condition ("None" if unset).
EventFacts == [sub : {"None", "s1", "s2"}, extension : {".txt", ".tsv"},
               condition : {"None", "cond"}]

\* A filter that keeps every candidate.
AnySubject(candidate) == TRUE

\* Lines 36-40: the candidate has no subject, or the subject of the source.
SameSubject(candidate) ==
    ~(ev_files[candidate].sub # "None" /\ ev_files[candidate].sub # ev_source_sub)

\* The candidates as the query listed them.
AsListed(candidates) == candidates

\* Line 34: sorted(set(candidates))
SortedCandidates(candidates) == Sorted(Range(candidates))

\* Lines 42-50: the entry of a candidate, a (path, condition) pair for a
\* ".txt" file and the bare path for any other.
condition_file(candidate) ==
    IF ev_files[candidate].extension = ".txt"
      THEN [path |-> candidate, paired |-> TRUE, condition |-> ev_files[candidate].condition]
      ELSE [path |-> candidate, paired |-> FALSE, condition |-> "None"]

\* Lines 34-50: the loop over the candidates in list order.
RECURSIVE ConditionFiles(_)
ConditionFiles(candidates) ==
    IF candidates = << >> THEN << >>
    ELSE IF SameSubject(Head(candidates))
         THEN << condition_file(Head(candidates)) >> \o ConditionFiles(Tail(candidates))
         ELSE ConditionFiles(Tail(candidates))

\* The assert of line 45 fails: a ".txt" candidate of the subject without a
\* condition tag.
ConditionMissing(candidates) ==
    \E i \in 1..Len(candidates) :
        /\ SameSubject(candidates[i])
        /\ ev_files[candidates[i]].extension = ".txt"
        /\ ev_files[candidates[i]].condition = "None"

NoEvents == [none |-> TRUE, files |-> << >>]

EvIdle ==
    /\ ev_source_sub = "None"
    /\ ev_files = << >>
    /\ ev_none = FALSE
    /\ ev_listing = << >>
    /\ ev_pc = "idle"
    /\ ev_result = NoEvents

\* The call: the tags in the database and what the query lists, in any
\* order and with repetitions.
EvInit ==
    /\ ev_source_sub \in {"None", "s1"}
    /\ ev_files \in [1..MaxEvents -> EventFacts]
    /\ ev_none \in BOOLEAN
    /\ ev_listing \in UNION { [1..n -> 1..MaxEvents] : n \in 0..MaxListing }
    /\ ev_none => ev_listing = << >>
    /\ ev_pc = "query"
    /\ ev_result = NoEvents

\* Lines 21-29: no candidates, no events.
EvQuery ==
    /\ ev_pc = "query"
    /\ ev_pc' = IF ev_none \/ Len(ev_listing) = 0 THEN "done" ELSE "filter"
    /\ UNCHANGED <<ev_source_sub, ev_files, ev_none, ev_listing, ev_result>>
    /\ UNCHANGED not_ev_vars

\* Lines 31-55: the filter and the return.
EvFilter ==
    /\ ev_pc = "filter"
    /\ IF ConditionMissing(SortedCandidates(ev_listing))
         THEN /\ ev_pc' = "AssertionError"
              /\ UNCHANGED ev_result
         ELSE /\ ev_pc' = "done"
              /\ ev_result' =
                    IF Len(ConditionFiles(SortedCandidates(ev_listing))) > 0
                      THEN [none |-> FALSE, files |-> ConditionFiles(SortedCandidates(ev_listing))]
                      ELSE NoEvents
    /\ UNCHANGED <<ev_source_sub, ev_files, ev_none, ev_listing>>
    /\ UNCHANGED not_ev_vars

EvNext ==
    \/ EvQuery
    \/ EvFilter

-----------------------------------------------------------------------------
(* tui/feature_widgets/task_based/taskbased.py: get_conditions.  The tuple
   collect_events returns for a run is named by a number, 0 for no value;
   two runs with the same number have the identical tuple. *)

\* The event tuples there are.
EventTuples == {1, 2}

\* What ConditionFile reads from a tuple: condition names in file order,
\* each once.
ConditionLists == {<< >>, <<"a">>, <<"b">>, <<"a", "b">>, <<"b", "a">>}

\* A check that never finds a tuple.
NeverSeen(seen, event_file_paths) == FALSE

\* Line 368: event_file_paths in seen
Seen(seen, event_file_paths) == event_file_paths \in seen

\* Lines 372-374: the names not yet in conditions are appended in order.
RECURSIVE AddConditions(_, _)
AddConditions(conditions, new) ==
    IF new = << >> THEN conditions
    ELSE AddConditions(IF Head(new) \in Range(conditions) THEN conditions
                       ELSE Append(conditions, Head(new)),
                       Tail(new))

GcIdle ==
    /\ gc_none = FALSE
    /\ gc_events = << >>
    /\ gc_parse = << >>
    /\ gc_pc = "idle"
    /\ gc_todo = {}
    /\ gc_seen = {}
    /\ gc_conditions = << >>
    /\ gc_parsed = << >>

\* The call: what the database holds for the runs the filter selects.
GcInit ==
    /\ gc_none \in BOOLEAN
    /\ gc_events \in [1..MaxCondRuns -> {0} \cup EventTuples]
    /\ gc_parse \in [EventTuples -> ConditionLists]
    /\ gc_pc = "find_bold_file_paths"
    /\ gc_todo = {}
    /\ gc_seen = {}
    /\ gc_conditions = << >>
    /\ gc_parsed = << >>

\* Lines 382-394: find_bold_file_paths; without BOLD files it raises.
GcFind ==
    /\ gc_pc = "find_bold_file_paths"
    /\ IF gc_none
         THEN /\ gc_pc' = "ValueError"
              /\ UNCHANGED gc_todo
         ELSE /\ gc_pc' = "loop"
              /\ gc_todo' = DOMAIN gc_events
    /\ UNCHANGED <<gc_none, gc_events, gc_parse, gc_seen, gc_conditions, gc_parsed>>
    /\ UNCHANGED not_gc_vars

\* Lines 363-376: one iteration over the set of runs, in any order.
GcVisit ==
    /\ gc_pc = "loop"
    /\ gc_todo # {}
    /\ \E bold_file_path \in gc_todo :
          LET event_file_paths == gc_events[bold_file_path] IN
          /\ gc_todo' = gc_todo \ {bold_file_path}
          /\ IF event_file_paths = 0 \/ Seen(gc_seen, event_file_paths)
               THEN UNCHANGED <<gc_seen, gc_conditions, gc_parsed>>
               ELSE /\ gc_conditions' = AddConditions(gc_conditions, gc_parse[event_file_paths])
                    /\ gc_seen' = gc_seen \cup {event_file_paths}
                    /\ gc_parsed' = Append(gc_parsed, event_file_paths)
    /\ UNCHANGED <<gc_none, gc_events, gc_parse, gc_pc>>
    /\ UNCHANGED not_gc_vars

\* Line 378
GcReturn ==
    /\ gc_pc = "loop"
    /\ gc_todo = {}
    /\ gc_pc' = "done"
    /\ UNCHANGED <<gc_none, gc_events, gc_parse, gc_todo, gc_seen, gc_conditions, gc_parsed>>
    /\ UNCHANGED not_gc_vars

GcNext ==
    \/ GcFind
    \/ GcVisit
    \/ GcReturn

-----------------------------------------------------------------------------
(* halfpipe/ui/metadata.py: CheckMetadataStep and SetMetadataStep.  A value
   of the metadata key is a number, in the order in which np.unique sorts
   the values; 0 stands for None.  The Step base class drives a step: setup
   once, then run; if run returns False the step ends, otherwise next, and
   if next returns nothing, run again. *)

MdValues == 1..MaxMdValue

\* The specification file objects; the last one is ctx.spec.files[-1].
MdSpecFiles == {1, 2}

MdLastSpecFile == 2

\* Lines 129-132: a specification file object may lack the metadata mapping;
\* a mapping holds the step's key and other keys (value 0: key not set).
NoMapping == [exists |-> FALSE, value |-> 0, other |-> 0]

\* The metadata a specification file object can start with.
InitialMetadata ==
    {NoMapping, [exists |-> TRUE, value |-> 0, other |-> 1],
     [exists |-> TRUE, value |-> 1, other |-> 1]}

\* Line 196: at most ten values are listed.
ShownLimit == 10

\* display_str: the label shown for a value.
display_str(x) == [label |-> x]

\* No label: the suggestion None, and the result None of an input view.
NoLabel == [label |-> 0]

NoViews == [shown |-> FALSE, rows |-> << >>, ellipsis |-> FALSE]

NoStep == [made |-> FALSE, filters |-> "None", schema |-> "None", key |-> "None",
           suggestion |-> NoLabel, next_step_type |-> "None"]

\* A SetMetadataStep that resolves the file of the last specification entry.
SetStepWithoutFilters(filters, schema, key, suggestion, next_step_type) ==
    [made |-> TRUE, filters |-> "None", schema |-> schema, key |-> key,
     suggestion |-> suggestion, next_step_type |-> next_step_type]

\* SetMetadataStep.__init__ (lines 44-55), as called in lines 236-243.
NewSetMetadataStep(filters, schema, key, suggestion, next_step_type) ==
    [made |-> TRUE, filters |-> filters, schema |-> schema, key |-> key,
     suggestion |-> suggestion, next_step_type |-> next_step_type]

\* A step that never sets the metadata.
AlwaysContinue(choice, should_skip) == TRUE

\* Line 233: self.choice == "Yes" or self.should_skip
GoesToContinuation(choice, should_skip) == choice = "Yes" \/ should_skip

\* Line 192: np.unique(vals, return_counts=True)
uniquevals(vals) == Sorted(Range(vals))

counts(vals) ==
    [i \in 1..Len(uniquevals(vals)) |->
        Cardinality({ k \in 1..Len(vals) : vals[k] = uniquevals(vals)[i] })]

MinOf(a, b) == IF a <= b THEN a ELSE b

\* Lines 195-211: the rows listed, counts[i] next to uniquevals[i].
Rows(vals) ==
    [i \in 1..MinOf(ShownLimit, Len(uniquevals(vals))) |->
        [count |-> counts(vals)[i], display |-> display_str(uniquevals(vals)[i])]]

MdIdle ==
    /\ md_skip = FALSE
    /\ md_filters = "None"
    /\ md_key = "None"
    /\ md_vals = << >>
    /\ md_matching = {}
    /\ md_pc = "idle"
    /\ md_is_first_run = FALSE
    /\ md_should_skip = FALSE
    /\ md_is_missing = FALSE
    /\ md_choice = "None"
    /\ md_suggestion = NoLabel
    /\ md_views = NoViews
    /\ md_asked = 0
    /\ md_set_step = NoStep
    /\ md_result = NoLabel
    /\ md_metadata = [f \in MdSpecFiles |-> NoMapping]

\* The step is called: the configuration of the step and what the database
\* holds for the files it resolves.
MdInit ==
    /\ md_skip \in BOOLEAN
    /\ md_filters \in {"None", "filters"}
    /\ md_key \in {"repetition_time", "phase_encoding_direction"}
    /\ md_vals \in UNION { [1..n -> {0} \cup MdValues] : n \in 0..MaxMdFiles }
    /\ md_matching \in SUBSET MdSpecFiles
    /\ md_filters = "None" => md_matching = {}
    /\ md_pc = "setup"
    /\ md_is_first_run = FALSE
    /\ md_should_skip = FALSE
    /\ md_is_missing = FALSE
    /\ md_choice = "None"
    /\ md_suggestion = NoLabel
    /\ md_views = NoViews
    /\ md_asked = 0
    /\ md_set_step = NoStep
    /\ md_result = NoLabel
    /\ md_metadata \in [MdSpecFiles -> InitialMetadata]

\* CheckMetadataStep.setup (lines 149-219).  np.unique sorts the values: a
\* list that mixes None with values cannot be sorted and raises TypeError.
MdSetup ==
    /\ md_pc = "setup"
    /\ md_is_first_run' = TRUE
    /\ md_should_skip' = md_skip
    /\ md_choice' = "None"
    /\ IF md_skip
         THEN /\ md_is_missing' = TRUE
              /\ md_pc' = "run"
              /\ UNCHANGED <<md_suggestion, md_views>>
         ELSE IF \A k \in 1..Len(md_vals) : md_vals[k] = 0
         THEN /\ md_is_missing' = TRUE
              /\ md_pc' = "run"
              /\ md_suggestion' = NoLabel
              /\ UNCHANGED md_views
         ELSE IF \E k \in 1..Len(md_vals) : md_vals[k] = 0
         THEN /\ md_is_missing' = FALSE
              /\ md_pc' = "TypeError"
              /\ md_suggestion' = NoLabel
              /\ UNCHANGED md_views
         ELSE /\ md_is_missing' = FALSE
              /\ md_pc' = "run"
              /\ md_suggestion' = Rows(md_vals)[1].display
              /\ md_views' = [shown |-> TRUE, rows |-> Rows(md_vals),
                              ellipsis |-> Len(uniquevals(md_vals)) > ShownLimit]
    /\ UNCHANGED <<md_skip, md_filters, md_key, md_vals, md_matching, md_asked, md_set_step,
                   md_result, md_metadata>>
    /\ UNCHANGED not_md_vars

\* CheckMetadataStep.run (lines 221-228): a missing value asks nothing; else
\* the user answers Yes or No, or cancels.
MdRun ==
    /\ md_pc = "run"
    /\ IF md_is_missing
         THEN /\ md_pc' = IF md_is_first_run THEN "next" ELSE "back"
              /\ UNCHANGED <<md_choice, md_asked>>
         ELSE /\ md_asked < MaxAsk
              /\ md_asked' = md_asked + 1
              /\ \E choice \in {"Yes", "No", "None"} :
                    /\ md_choice' = choice
                    /\ md_pc' = IF choice = "None" THEN "back" ELSE "next"
    /\ UNCHANGED <<md_skip, md_filters, md_key, md_vals, md_matching, md_is_first_run,
                   md_should_skip, md_is_missing, md_suggestion, md_views, md_set_step,
                   md_result, md_metadata>>
    /\ UNCHANGED not_md_vars

\* CheckMetadataStep.next (lines 230-243): on to the continuation step, or to
\* a new SetMetadataStep.
MdNext ==
    /\ md_pc = "next"
    /\ md_is_first_run' = FALSE
    /\ IF GoesToContinuation(md_choice, md_should_skip)
         THEN /\ md_pc' = "continuation"
              /\ UNCHANGED md_set_step
         ELSE /\ md_pc' = "set_run"
              /\ md_set_step' = NewSetMetadataStep(md_filters, "schema", md_key, md_suggestion,
                                                   "next_step_type")
    /\ UNCHANGED <<md_skip, md_filters, md_key, md_vals, md_matching, md_should_skip,
                   md_is_missing, md_choice, md_suggestion, md_views, md_asked, md_result,
                   md_metadata>>
    /\ UNCHANGED not_md_vars

\* A run that reports success whatever the input view yields.
AlwaysSucceeds(result) == TRUE

\* Lines 108-110: run reports failure when the input view yields nothing.
RunSucceeds(result) == result # NoLabel

\* SetMetadataStep.run (lines 106-110): the input view yields a label or
\* nothing; with nothing the step ends and CheckMetadataStep runs again.
MdSetRun ==
    /\ md_pc = "set_run"
    /\ \E result \in {NoLabel} \cup { display_str(v) : v \in MdValues } :
          /\ md_result' = result
          /\ md_pc' = IF RunSucceeds(result) THEN "set_next" ELSE "run"
    /\ UNCHANGED <<md_skip, md_filters, md_key, md_vals, md_matching, md_is_first_run,
                   md_should_skip, md_is_missing, md_choice, md_suggestion, md_views, md_asked,
                   md_set_step, md_metadata>>
    /\ UNCHANGED not_md_vars

\* Lines 116-121: the label is mapped back through the aliases and
\* deserialized.
CanonicalValue(result) == result.label

\* Every specification file object, matching or not.
AllSpecFiles(filters) == MdSpecFiles

\* Lines 123-127: the specification file objects the value is written to.
specfileobjs(filters) == IF filters = "None" THEN {MdLastSpecFile} ELSE md_matching

\* SetMetadataStep.next (lines 112-134): the value is written and the
\* continuation step is entered.
MdSetNext ==
    /\ md_pc = "set_next"
    /\ md_metadata' = [f \in MdSpecFiles |->
                          IF md_result # NoLabel /\ f \in specfileobjs(md_set_step.filters)
                            THEN [exists |-> TRUE, value |-> CanonicalValue(md_result),
                                  other |-> md_metadata[f].other]
                            ELSE md_metadata[f]]
    /\ md_pc' = "continuation"
    /\ UNCHANGED <<md_skip, md_filters, md_key, md_vals, md_matching, md_is_first_run,
                   md_should_skip, md_is_missing, md_choice, md_suggestion, md_views, md_asked,
                   md_set_step, md_result>>
    /\ UNCHANGED not_md_vars

WizardNext ==
    \/ MdSetup
    \/ MdRun
    \/ MdNext
    \/ MdSetRun
    \/ MdSetNext

-----------------------------------------------------------------------------
(* taskbased.py: SwitchWithInputBox and SwitchWithSelect.  Python's None is
   the string "None"; a handler runs with the change that raises it. *)

SwitchKinds == {"SwitchWithInputBox", "SwitchWithSelect"}

\* What the text field or the dropdown can hold.
FieldValues == {"gaussian", "frequency_based"}

\* Lines 58-60 and 119-124: the toggle as composed.
ComposedToggle(kind, value, switch_value) ==
    IF kind = "SwitchWithInputBox" THEN value # "None" ELSE switch_value

\* Lines 60 and 120-123: the field as composed; a dropdown starts with its
\* first option.
ComposedField(kind, value) == IF kind = "SwitchWithInputBox" THEN value ELSE "gaussian"

\* Lines 44-49: the control as constructed.
SwInit ==
    /\ sw_kind \in SwitchKinds
    /\ sw_args \in [value : {"None"} \cup FieldValues, switch_value : BOOLEAN]
    /\ sw_pc = "new"
    /\ sw_value = sw_args.value
    /\ sw_switch_value = sw_args.switch_value
    /\ sw_toggle = FALSE
    /\ sw_field = "None"
    /\ sw_visible = TRUE
    /\ sw_posted = << >>

SwIdle ==
    /\ sw_kind = "SwitchWithInputBox"
    /\ sw_args = [value |-> "None", switch_value |-> FALSE]
    /\ sw_pc = "idle"
    /\ sw_value = "None"
    /\ sw_switch_value = FALSE
    /\ sw_toggle = FALSE
    /\ sw_field = "None"
    /\ sw_visible = TRUE
    /\ sw_posted = << >>

\* compose (lines 56-61, 115-126).
SwCompose ==
    /\ sw_pc = "new"
    /\ sw_pc' = "composed"
    /\ sw_toggle' = ComposedToggle(sw_kind, sw_value, sw_switch_value)
    /\ sw_field' = ComposedField(sw_kind, sw_value)
    /\ UNCHANGED <<sw_kind, sw_args, sw_value, sw_switch_value, sw_visible, sw_posted>>
    /\ UNCHANGED not_sw_vars

\* on_mount (lines 66-70).
SwMount ==
    /\ sw_pc = "composed"
    /\ sw_pc' = "mounted"
    /\ sw_visible' = (sw_switch_value \/ sw_value # "None")
    /\ UNCHANGED <<sw_kind, sw_args, sw_value, sw_switch_value, sw_toggle, sw_field, sw_posted>>
    /\ UNCHANGED not_sw_vars

\* on_switch_changed (lines 81-87) after a click on the toggle;
\* watch_switch_value (lines 54-55) posts SwitchChanged.
on_switch_changed ==
    /\ sw_pc = "mounted"
    /\ Len(sw_posted) < MaxPosted
    /\ sw_toggle' = ~sw_toggle
    /\ sw_switch_value' = sw_toggle'
    /\ sw_visible' = sw_toggle'
    /\ sw_posted' =
          IF sw_switch_value' # sw_switch_value
            THEN Append(sw_posted, [name |-> "SwitchChanged",
                                    value |-> IF sw_toggle' THEN "True" ELSE "False"])
            ELSE sw_posted
    /\ UNCHANGED <<sw_kind, sw_args, sw_pc, sw_value, sw_field>>
    /\ UNCHANGED not_sw_vars

\* update_from_input (lines 89-91, 128-130) after the user has changed the
\* visible field; watch_value (lines 51-52) posts Changed.
update_from_input ==
    /\ sw_pc = "mounted"
    /\ sw_visible
    /\ Len(sw_posted) < MaxPosted
    /\ \E field \in FieldValues \ {sw_field} :
          /\ sw_field' = field
          /\ sw_value' = field
          /\ sw_posted' = IF field # sw_value
                            THEN Append(sw_posted, [name |-> "Changed", value |-> field])
                            ELSE sw_posted
    /\ UNCHANGED <<sw_kind, sw_args, sw_pc, sw_switch_value, sw_toggle, sw_visible>>
    /\ UNCHANGED not_sw_vars

SwNext ==
    \/ SwCompose
    \/ SwMount
    \/ on_switch_changed
    \/ update_from_input

-----------------------------------------------------------------------------
(* tui/feature_widgets/task_based/taskbased.py, class TaskBased.  A task is a
   number, a condition is a number; feature_dict and setting_dict are records
   whose fields say whether the key is present.  The selection lists keep
   what is selected in the order in which it was selected; a change of a
   selection posts SelectedChanged, which the widget handles before the user
   changes a selection again. *)

Tasks == 1..MaxTasks

\* What get_conditions returns for each task, a list without repetitions:
\* tasks that share a condition with the next, or a task without events
\* next to tasks with the same conditions.
TaskConditionMaps ==
    { [t \in Tasks |-> <<t, t + 1>>],
      [t \in Tasks |-> IF t = 1 THEN << >> ELSE <<1, 2>>] }

\* Lines 169-179: the keys of confounds_options, in the order of the table.
ConfoundKeys ==
    <<"ICA-AROMA", "(trans|rot)_[xyz]", "(trans|rot)_[xyz]_derivative1",
      "(trans|rot)_[xyz]_power2", "(trans|rot)_[xyz]_derivative1_power2",
      "a_comp_cor_0[0-4]", "white_matter", "csf", "global_signal">>

\* The entries of the confound list that the user toggles.
ToggledConfounds == { ConfoundKeys[i] : i \in 1..(1 + MaxConfounds) }

AbsentValue == [present |-> FALSE, val |-> "None"]

AbsentList == [present |-> FALSE, val |-> << >>]

AbsentFlag == [present |-> FALSE, val |-> FALSE]

AbsentBandpass == [present |-> FALSE, type |-> "None", hp_width |-> "None", lp_width |-> "None"]

AbsentSmoothing == [present |-> FALSE, fwhm |-> "None"]

AbsentFilters ==
    [present |-> FALSE, type |-> "None", action |-> "None", entity |-> "None", values |-> << >>]

AbsentMean == [present |-> FALSE, mean |-> "None"]

\* Lines 152-165: the defaults of the sub-structures.
DefaultContrasts == [present |-> TRUE, val |-> << >>]

DefaultType == [present |-> TRUE, val |-> "task_based"]

DefaultBandpass ==
    [present |-> TRUE, type |-> "gaussian", hp_width |-> "None", lp_width |-> "None"]

DefaultSmoothing == [present |-> TRUE, fwhm |-> "None"]

DefaultFilters ==
    [present |-> TRUE, type |-> "tag", action |-> "include", entity |-> "task", values |-> << >>]

DefaultGrandMeanScaling == [present |-> TRUE, mean |-> "10000.0"]

\* The dictionaries the widget can be constructed from: each sub-structure
\* is missing or holds a value that differs from the default.
FeatureDicts ==
    [contrasts : {AbsentList, [present |-> TRUE, val |-> <<"contrast">>]},
     type : {AbsentValue, [present |-> TRUE, val |-> "loaded"]},
     conditions : {AbsentList}]

SettingDicts ==
    [bandpass_filter : {AbsentBandpass,
                        [present |-> TRUE, type |-> "frequency_based", hp_width |-> "0.01",
                         lp_width |-> "0.1"]},
     smoothing : {AbsentSmoothing, [present |-> TRUE, fwhm |-> "6.0"]},
     filters : {AbsentFilters} \cup
               { [DefaultFilters EXCEPT !.values = v] : v \in {<< >>, <<1>>, <<MaxTasks, 1>>} },
     grand_mean_scaling : {AbsentMean, [present |-> TRUE, mean |-> "50.0"]},
     ica_aroma : {AbsentFlag, [present |-> TRUE, val |-> TRUE], [present |-> TRUE, val |-> FALSE]},
     confounds_removal : {AbsentList} \cup
               { [present |-> TRUE, val |-> v] :
                     v \in {<< >>, <<ConfoundKeys[2]>>, <<ConfoundKeys[1], ConfoundKeys[2]>>} }]

\* A constructor that replaces what the dictionary holds.
Overwrite(existing, default) == default

\* Lines 152-165: if "key" not in dict: dict["key"] = default
IfNotIn(existing, default) == IF existing.present THEN existing ELSE default

\* All conditions of all tasks, whatever is selected.
AllTaskConditions(selected) ==
    LET RECURSIVE All(_)
        All(t) == IF t > MaxTasks THEN << >> ELSE tb_task_conditions[t] \o All(t + 1)
    IN All(1)

\* Lines 291-293: the condition lists of the selected tasks, one after another.
RECURSIVE condition_list(_)
condition_list(selected) ==
    IF selected = << >> THEN << >>
    ELSE tb_task_conditions[Head(selected)] \o condition_list(Tail(selected))

\* A copy of the selection from which nothing is removed.
KeepAll(selected) == selected

\* Lines 301-304: confounds = selected.copy(); confounds.remove("ICA-AROMA")
WithoutIcaAroma(selected) == SelectSeq(selected, LAMBDA k : k # "ICA-AROMA")

\* The selection list after the user has clicked the entry x.
Toggle(selected, x) ==
    IF x \in Range(selected) THEN SelectSeq(selected, LAMBDA y : y # x)
    ELSE Append(selected, x)

\* Lines 214-246: the ids of the switch-with-input controls.
ControlIds ==
    {"smoothing", "grand_mean_scaling", "bandpass_filter_type", "bandpass_filter_lp_width",
     "bandpass_filter_hp_width"}

\* The id of a control that a subclass adds: it names a field of the Feature.
OtherIds == {"type"}

\* What the user types into a text field.
InputValues == {"4.0", "6.0"}

NoControl == [kind |-> "SwitchWithInputBox", toggle |-> FALSE, value |-> "None", visible |-> TRUE]

\* Lines 252-261: the labels as composed.
ComposedLabels ==
    [lp_width |-> "Low-pass temporal filter width (in seconds)",
     hp_width |-> "High-pass temporal filter width (in seconds)"]

\* Lines 56-70: a control as composed and mounted.
MountedControl(kind, value, switch_value) ==
    [kind |-> kind, toggle |-> ComposedToggle(kind, value, switch_value),
     value |-> value, visible |-> (switch_value \/ value # "None")]

\* A sub-key that is "type" for every control of the band-pass filter.
AlwaysType(the_id) == "type"

\* Lines 335-344: where the value of a control goes, by its id.
Routed(the_id) ==
    IF the_id \in {"bandpass_filter_type", "bandpass_filter_lp_width",
                   "bandpass_filter_hp_width"}
      THEN "bandpass_filter"
    ELSE IF the_id = "grand_mean_scaling" THEN "grand_mean_scaling"
    ELSE IF the_id = "smoothing" THEN "smoothing"
    ELSE "feature"

\* Line 336: the_id.replace("bandpass_filter_", "")
SubKey(the_id) ==
    CASE the_id = "bandpass_filter_type" -> "type"
      [] the_id = "bandpass_filter_lp_width" -> "lp_width"
      [] the_id = "bandpass_filter_hp_width" -> "hp_width"

TbIdle ==
    /\ tb_task_conditions = [t \in Tasks |-> << >>]
    /\ tb_pc = "idle"
    /\ tb_feature = [contrasts |-> AbsentList, type |-> AbsentValue, conditions |-> AbsentList]
    /\ tb_setting = [bandpass_filter |-> AbsentBandpass, smoothing |-> AbsentSmoothing,
                     filters |-> AbsentFilters, grand_mean_scaling |-> AbsentMean,
                     ica_aroma |-> AbsentFlag, confounds_removal |-> AbsentList]
    /\ tb_images_to_use = [t \in Tasks |-> FALSE]
    /\ tb_confounds_options = [k \in Range(ConfoundKeys) |-> FALSE]
    /\ tb_selected_images = << >>
    /\ tb_selected_confounds = << >>
    /\ tb_pending = {}
    /\ tb_condition_values = AbsentList
    /\ tb_switches = [c \in ControlIds |-> NoControl]
    /\ tb_labels = ComposedLabels
    /\ tb_panel = [widths_visible |-> TRUE, height |-> "auto"]

\* The arguments of TaskBased.__init__.
TbInit ==
    /\ tb_task_conditions \in TaskConditionMaps
    /\ tb_pc = "new"
    /\ tb_feature \in FeatureDicts
    /\ tb_setting \in SettingDicts
    /\ tb_images_to_use = [t \in Tasks |-> FALSE]
    /\ tb_confounds_options = [k \in Range(ConfoundKeys) |-> FALSE]
    /\ tb_selected_images = << >>
    /\ tb_selected_confounds = << >>
    /\ tb_pending = {}
    /\ tb_condition_values = AbsentList
    /\ tb_switches = [c \in ControlIds |-> NoControl]
    /\ tb_labels = ComposedLabels
    /\ tb_panel = [widths_visible |-> TRUE, height |-> "auto"]

\* A widget made for a new feature (empty dictionaries) or for a feature of a
\* loaded specification (every sub-structure present).
NewOrLoaded ==
    \A present \in {tb_feature.type.present, tb_setting.bandpass_filter.present,
                     tb_setting.smoothing.present, tb_setting.filters.present,
                     tb_setting.grand_mean_scaling.present, tb_setting.ica_aroma.present,
                     tb_setting.confounds_removal.present} :
        present = tb_feature.contrasts.present

\* TaskBased.__init__ (lines 138-185).
TbConstruct ==
    /\ tb_pc = "new"
    /\ tb_pc' = "constructed"
    /\ tb_feature' =
          [tb_feature EXCEPT !.contrasts = IfNotIn(@, DefaultContrasts),
                             !.type = IfNotIn(@, DefaultType)]
    /\ tb_setting' =
          [tb_setting EXCEPT !.bandpass_filter = IfNotIn(@, DefaultBandpass),
                             !.smoothing = IfNotIn(@, DefaultSmoothing),
                             !.filters = IfNotIn(@, DefaultFilters),
                             !.grand_mean_scaling = IfNotIn(@, DefaultGrandMeanScaling)]
    /\ tb_images_to_use' = [t \in Tasks |-> t \in Range(tb_setting'.filters.values)]
    /\ tb_confounds_options' =
          [k \in Range(ConfoundKeys) |->
              /\ tb_setting.confounds_removal.present
              /\ k \in Range(tb_setting.confounds_removal.val)]
    /\ UNCHANGED <<tb_task_conditions, tb_selected_images, tb_selected_confounds, tb_pending,
                   tb_condition_values>>
    /\ UNCHANGED tb_controls
    /\ UNCHANGED not_tb_vars

\* TaskBased.compose and on_mount (lines 187-272): the selection lists show
\* what the constructor prepared, the sub-editor gets every condition.
TbMount ==
    /\ tb_pc = "constructed"
    /\ tb_pc' = "mounted"
    /\ tb_selected_images' =
          SelectSeq([t \in 1..MaxTasks |-> t], LAMBDA t : tb_images_to_use[t])
    /\ tb_selected_confounds' = SelectSeq(ConfoundKeys, LAMBDA k : tb_confounds_options[k])
    /\ tb_condition_values' = [present |-> TRUE, val |-> AllTaskConditions(<< >>)]
    /\ tb_switches' =
          [c \in ControlIds |->
              CASE c = "smoothing" ->
                      MountedControl("SwitchWithInputBox", tb_setting.smoothing.fwhm, FALSE)
                [] c = "grand_mean_scaling" ->
                      MountedControl("SwitchWithInputBox", tb_setting.grand_mean_scaling.mean,
                                     FALSE)
                [] c = "bandpass_filter_type" ->
                      MountedControl("SwitchWithSelect", "None", TRUE)
                [] c = "bandpass_filter_lp_width" ->
                      MountedControl("SwitchWithInputBox", tb_setting.bandpass_filter.lp_width,
                                     FALSE)
                [] c = "bandpass_filter_hp_width" ->
                      MountedControl("SwitchWithInputBox", tb_setting.bandpass_filter.hp_width,
                                     FALSE)]
    /\ UNCHANGED <<tb_task_conditions, tb_feature, tb_setting, tb_images_to_use,
                   tb_confounds_options, tb_pending, tb_labels, tb_panel>>
    /\ UNCHANGED not_tb_vars

\* The user selects or deselects a task image.
TbToggleImage ==
    /\ tb_pc = "mounted"
    /\ tb_pending = {}
    /\ \E t \in Tasks : tb_selected_images' = Toggle(tb_selected_images, t)
    /\ tb_pending' = tb_pending \cup {"images_to_use_selection"}
    /\ UNCHANGED <<tb_task_conditions, tb_pc, tb_feature, tb_setting, tb_images_to_use,
                   tb_confounds_options, tb_selected_confounds, tb_condition_values>>
    /\ UNCHANGED tb_controls
    /\ UNCHANGED not_tb_vars

\* _on_selection_list_changed_images_to_use_selection and
\* update_conditions_table (lines 284-297).
update_conditions_table ==
    /\ "images_to_use_selection" \in tb_pending
    /\ tb_pending' = tb_pending \ {"images_to_use_selection"}
    /\ tb_feature' = [tb_feature EXCEPT !.conditions =
                          [present |-> TRUE, val |-> condition_list(tb_selected_images)]]
    /\ tb_setting' = [tb_setting EXCEPT !.filters.values = tb_selected_images]
    /\ tb_condition_values' = [present |-> TRUE, val |-> condition_list(tb_selected_images)]
    /\ UNCHANGED <<tb_task_conditions, tb_pc, tb_images_to_use, tb_confounds_options,
                   tb_selected_images, tb_selected_confounds>>
    /\ UNCHANGED tb_controls
    /\ UNCHANGED not_tb_vars

\* The user selects or deselects an entry of the confound list.
TbToggleConfound ==
    /\ tb_pc = "mounted"
    /\ tb_pending = {}
    /\ \E k \in ToggledConfounds : tb_selected_confounds' = Toggle(tb_selected_confounds, k)
    /\ tb_pending' = tb_pending \cup {"confounds_selection"}
    /\ UNCHANGED <<tb_task_conditions, tb_pc, tb_feature, tb_setting, tb_images_to_use,
                   tb_confounds_options, tb_selected_images, tb_condition_values>>
    /\ UNCHANGED tb_controls
    /\ UNCHANGED not_tb_vars

\* feed_feature_dict_confounds (lines 299-309).
feed_feature_dict_confounds ==
    /\ "confounds_selection" \in tb_pending
    /\ tb_pending' = tb_pending \ {"confounds_selection"}
    /\ tb_setting' =
          [tb_setting EXCEPT
              !.ica_aroma = [present |-> TRUE, val |-> "ICA-AROMA" \in Range(tb_selected_confounds)],
              !.confounds_removal =
                  [present |-> TRUE,
                   val |-> IF "ICA-AROMA" \in Range(tb_selected_confounds)
                             THEN WithoutIcaAroma(tb_selected_confounds)
                             ELSE tb_selected_confounds]]
    /\ UNCHANGED <<tb_task_conditions, tb_pc, tb_feature, tb_images_to_use,
                   tb_confounds_options, tb_selected_images, tb_selected_confounds,
                   tb_condition_values>>
    /\ UNCHANGED tb_controls
    /\ UNCHANGED not_tb_vars

\* Whether the user can reach the control: the width controls are hidden
\* with the band-pass toggle.
Reachable(c) ==
    c \in {"bandpass_filter_lp_width", "bandpass_filter_hp_width"} => tb_panel.widths_visible

\* SwitchWithInputBox.on_switch_changed (lines 81-87) after a click on the
\* toggle of a control; the SwitchChanged it posts is handled by
\* setting_change_bandpass_filter_type (lines 311-321) for that control only.
TbToggleSwitch ==
    /\ tb_pc = "mounted"
    /\ tb_pending = {}
    /\ \E c \in ControlIds :
          /\ Reachable(c)
          /\ tb_switches' = [tb_switches EXCEPT ![c].toggle = ~@,
                                                ![c].visible = ~tb_switches[c].toggle]
          /\ tb_panel' =
                IF c = "bandpass_filter_type"
                  THEN [widths_visible |-> tb_switches'[c].toggle,
                        height |-> IF tb_switches'[c].toggle THEN "19" ELSE "13"]
                  ELSE tb_panel
    /\ UNCHANGED <<tb_task_conditions, tb_pc, tb_feature, tb_setting, tb_images_to_use,
                   tb_confounds_options, tb_selected_images, tb_selected_confounds, tb_pending,
                   tb_condition_values, tb_labels>>
    /\ UNCHANGED not_tb_vars

\* Lines 326-332: the labels after a Changed message.
UpdatedLabels(the_id, value) ==
    IF the_id = "bandpass_filter_type" /\ value = "frequency_based"
      THEN [lp_width |-> "Low-pass temporal filter width (in Hertz)",
            hp_width |-> "Low-pass temporal filter width (in Hertz)"]
    ELSE IF the_id = "bandpass_filter_type" /\ value = "gaussian"
      THEN [lp_width |-> "Low-pass temporal filter width (in seconds)",
            hp_width |-> "Low-pass temporal filter width (in seconds)"]
    ELSE tb_labels

\* update_from_input (lines 89-91, 128-130) after the user has changed a
\* visible field, and on_switch_with_input_box_changed (lines 323-344),
\* which handles the Changed message that watch_value posts.
on_switch_with_input_box_changed ==
    /\ tb_pc = "mounted"
    /\ tb_pending = {}
    /\ \E the_id \in ControlIds \cup OtherIds :
       \E value \in (IF the_id = "bandpass_filter_type" THEN FieldValues ELSE InputValues) :
          /\ IF the_id \in ControlIds
               THEN /\ Reachable(the_id)
                    /\ tb_switches[the_id].visible
                    /\ tb_switches[the_id].value # value
                    /\ tb_switches' = [tb_switches EXCEPT ![the_id].value = value]
               ELSE /\ tb_feature[the_id].val # value
                    /\ UNCHANGED tb_switches
          /\ tb_labels' = UpdatedLabels(the_id, value)
          /\ tb_setting' =
                CASE Routed(the_id) = "bandpass_filter" ->
                        [tb_setting EXCEPT !.bandpass_filter[SubKey(the_id)] = value]
                  [] Routed(the_id) = "grand_mean_scaling" ->
                        [tb_setting EXCEPT !.grand_mean_scaling.mean = value]
                  [] Routed(the_id) = "smoothing" ->
                        [tb_setting EXCEPT !.smoothing.fwhm = value]
                  [] OTHER -> tb_setting
          /\ tb_feature' =
                IF Routed(the_id) = "feature"
                  THEN [tb_feature EXCEPT ![the_id] = [present |-> TRUE, val |-> value]]
                  ELSE tb_feature
    /\ UNCHANGED <<tb_task_conditions, tb_pc, tb_images_to_use, tb_confounds_options,
                   tb_selected_images, tb_selected_confounds, tb_pending, tb_condition_values,
                   tb_panel>>
    /\ UNCHANGED not_tb_vars

\* The preprocessing panel: the toggles and fields of the controls.
TbInputsNext ==
    \/ TbConstruct
    \/ TbMount
    \/ TbToggleSwitch
    \/ on_switch_with_input_box_changed

\* The inputs with which the preprocessing panel is explored: nothing
\* selected in the lists.
NothingSelected ==
    /\ tb_task_conditions = [t \in Tasks |-> <<t, t + 1>>]
    /\ tb_setting.filters.values = << >>
    /\ tb_setting.confounds_removal.val = << >>
    /\ ~tb_setting.ica_aroma.val

TbNext ==
    \/ TbConstruct
    \/ TbMount
    \/ TbToggleImage
    \/ update_conditions_table
    \/ TbToggleConfound
    \/ feed_feature_dict_confounds

-----------------------------------------------------------------------------
(* tui/preprocessing/base.py: the preprocessing widget and its modal for the
   number of initial volumes.  A text of the modal's input is blank or a
   count; ctx.spec.global_settings comes from the specification in use. *)

Counts == 0..MaxCount

\* global_settings["dummy_scans"]: no value, or a count.
NoDummyScans == [set |-> FALSE, n |-> 0]

\* Line 25: Input("")
BlankInput == [blank |-> TRUE, n |-> 0]

\* Lines 33-36: a blank input is dismissed as "0".
Dismissed(input) == IF input.blank THEN 0 ELSE input.n

\* Lines 58-105: the widget as composed and mounted; the settings are those
\* of the specification.
PpInit ==
    /\ pp_global_settings \in
          [dummy_scans : {NoDummyScans} \cup { [set |-> TRUE, n |-> n] : n \in Counts },
           run_reconall : {"unset"}]
    /\ pp_pc = "widget"
    /\ pp_via_algorithm = FALSE
    /\ pp_recon_all = FALSE
    /\ pp_edit_visible = TRUE
    /\ pp_label = "Remove initial volumes from scans"
    /\ pp_shown = [text |-> 0, border |-> "none"]
    /\ pp_input = BlankInput

PpIdle ==
    /\ pp_global_settings = [dummy_scans |-> NoDummyScans, run_reconall |-> "unset"]
    /\ pp_pc = "idle"
    /\ pp_via_algorithm = FALSE
    /\ pp_recon_all = FALSE
    /\ pp_edit_visible = TRUE
    /\ pp_label = "Remove initial volumes from scans"
    /\ pp_shown = [text |-> 0, border |-> "none"]
    /\ pp_input = BlankInput

\* _on_via_algorithm_switch_changed (lines 107-118), with the click on the
\* switch that raises it.
on_via_algorithm_switch_changed ==
    /\ pp_pc = "widget"
    /\ pp_via_algorithm' = ~pp_via_algorithm
    /\ IF pp_via_algorithm'
         THEN /\ pp_label' = "Turn of 'Detect non-steady-state via algorithm'"
              /\ pp_edit_visible' = FALSE
         ELSE /\ pp_label' = "Remove initial volumes from scans"
              /\ pp_edit_visible' = TRUE
    /\ UNCHANGED <<pp_global_settings, pp_pc, pp_recon_all, pp_shown, pp_input>>
    /\ UNCHANGED not_pp_vars

\* on_run_recon_all_switch_changed (lines 120-122), with the click on the
\* switch that raises it.
on_run_recon_all_switch_changed ==
    /\ pp_pc = "widget"
    /\ pp_recon_all' = ~pp_recon_all
    /\ pp_global_settings' =
          [pp_global_settings EXCEPT !.run_reconall = IF pp_recon_all' THEN "True" ELSE "False"]
    /\ UNCHANGED <<pp_pc, pp_via_algorithm, pp_edit_visible, pp_label, pp_shown, pp_input>>
    /\ UNCHANGED not_pp_vars

\* _on_edit_button_pressed (lines 158-160) and the modal's on_mount (lines
\* 21-28); a hidden button cannot be pressed.
on_edit_button_pressed ==
    /\ pp_pc = "widget"
    /\ pp_edit_visible
    /\ pp_pc' = "modal"
    /\ pp_input' = BlankInput
    /\ UNCHANGED <<pp_global_settings, pp_via_algorithm, pp_recon_all, pp_edit_visible,
                   pp_label, pp_shown>>
    /\ UNCHANGED not_pp_vars

\* The user types a count into the modal, or clears the input.
PpType ==
    /\ pp_pc = "modal"
    /\ \E input \in {BlankInput} \cup { [blank |-> FALSE, n |-> n] : n \in Counts } :
          /\ input # pp_input
          /\ pp_input' = input
    /\ UNCHANGED <<pp_global_settings, pp_pc, pp_via_algorithm, pp_recon_all, pp_edit_visible,
                   pp_label, pp_shown>>
    /\ UNCHANGED not_pp_vars

\* _on_ok_button_pressed (lines 30-36) and the callback
\* update_remove_initial_volumes_value (lines 162-166).
on_ok_button_pressed ==
    /\ pp_pc = "modal"
    /\ pp_pc' = "widget"
    /\ pp_shown' = [text |-> Dismissed(pp_input), border |-> "green"]
    /\ UNCHANGED <<pp_global_settings, pp_via_algorithm, pp_recon_all, pp_edit_visible,
                   pp_label, pp_input>>
    /\ UNCHANGED not_pp_vars

\* _on_cancel_button_pressed (lines 38-40): the callback gets None and
\* changes nothing (line 164).
on_cancel_button_pressed ==
    /\ pp_pc = "modal"
    /\ pp_pc' = "widget"
    /\ UNCHANGED <<pp_global_settings, pp_via_algorithm, pp_recon_all, pp_edit_visible,
                   pp_label, pp_shown, pp_input>>
    /\ UNCHANGED not_pp_vars

PpNext ==
    \/ on_via_algorithm_switch_changed
    \/ on_run_recon_all_switch_changed
    \/ on_edit_button_pressed
    \/ PpType
    \/ on_ok_button_pressed
    \/ on_cancel_button_pressed

-----------------------------------------------------------------------------
(* tui/working_directory/base.py, cache_file_patterns, lines 189-222: one
   pass of the loop over the files of the loaded specification, with the
   path of the file as text.  A path is a sequence of characters; the
   letters of a word that no placeholder shares with another stand as one
   character, so that "{sub}" is three characters and "{subject}" four. *)

\* The parts a path is put together from: the placeholders and plain text.
PieceNames == {"sub", "subject", "desc", "atlas", "seed", "map", "x"}

\* The characters of a part.
Chars(piece) ==
    CASE piece = "sub"     -> << "{", "sub", "}" >>
      [] piece = "subject" -> << "{", "sub", "ject", "}" >>
      [] piece = "x"       -> << "x" >>
      [] OTHER             -> << "{", piece, "}" >>

RECURSIVE PathOf(_)
PathOf(pieces) ==
    IF pieces = << >> THEN << >> ELSE Chars(Head(pieces)) \o PathOf(Tail(pieces))

\* The paths a specification document can hold.
LoadedPieces == UNION { [1..n -> PieceNames] : n \in 0..MaxPieces }

\* datatype and suffix of the file objects of a specification; a BIDS
\* dataset has no suffix.
FileKinds ==
    { [datatype |-> "bids", suffix |-> "none"],
      [datatype |-> "func", suffix |-> "bold"],
      [datatype |-> "anat", suffix |-> "T1w"],
      [datatype |-> "func", suffix |-> "events"],
      [datatype |-> "ref",  suffix |-> "atlas"],
      [datatype |-> "ref",  suffix |-> "seed"],
      [datatype |-> "ref",  suffix |-> "map"],
      [datatype |-> "fmap", suffix |-> "epi"] }

\* str.replace(old, new): every occurrence of old, from the left, without
\* overlap.
RECURSIVE replace(_, _, _)
replace(s, old, new) ==
    IF Len(s) < Len(old) THEN s
    ELSE IF SubSeq(s, 1, Len(old)) = old
         THEN new \o replace(SubSeq(s, Len(old) + 1, Len(s)), old, new)
    ELSE << Head(s) >> \o replace(Tail(s), old, new)

\* A rewrite that puts "{atlas}" for "{desc}" whatever the suffix.
AlwaysAtlas(suffix) == "atlas"

\* Lines 214-222: the placeholder that takes the place of "{desc}".
DescToken(suffix) ==
    CASE suffix = "atlas" -> "atlas"
      [] suffix = "seed"  -> "seed"
      [] suffix = "map"   -> "map"

RwIdle ==
    /\ rw_pieces = << >>
    /\ rw_f = [path |-> << >>, datatype |-> "bids", suffix |-> "none"]
    /\ rw_pc = "idle"
    /\ rw_routed = "nowhere"

\* The loop has taken the file f from existing_spec.files.
RwInit ==
    /\ rw_pieces \in LoadedPieces
    /\ \E kind \in FileKinds :
          rw_f = [path |-> PathOf(rw_pieces), datatype |-> kind.datatype,
                  suffix |-> kind.suffix]
    /\ rw_pc = "line 192"
    /\ rw_routed = "nowhere"

\* Line 192.
RewriteSubject ==
    /\ rw_pc = "line 192"
    /\ rw_f' = [rw_f EXCEPT !.path = replace(@, Chars("sub"), Chars("subject"))]
    /\ rw_pc' = "line 193"
    /\ UNCHANGED <<rw_pieces, rw_routed>>
    /\ UNCHANGED not_rw_vars

\* Lines 193-222: the file goes where its datatype and suffix send it; the
\* path of an atlas, seed or map file is rewritten on the way.
RouteBySuffix ==
    /\ rw_pc = "line 193"
    /\ IF rw_f.datatype = "bids"
         THEN rw_routed' = "bids" /\ UNCHANGED rw_f
       ELSE IF rw_f.suffix \in {"bold", "T1w"}
         THEN rw_routed' = "file item" /\ UNCHANGED rw_f
       ELSE IF rw_f.suffix = "events"
         THEN rw_routed' = "event_file_objects" /\ UNCHANGED rw_f
       ELSE IF rw_f.suffix \in {"atlas", "seed", "map"}
         THEN /\ rw_f' = [rw_f EXCEPT !.path =
                            replace(@, Chars("desc"), Chars(DescToken(rw_f.suffix)))]
              /\ rw_routed' = CASE rw_f.suffix = "atlas" -> "atlas_file_objects"
                                [] rw_f.suffix = "seed"  -> "seed_map_file_objects"
                                [] rw_f.suffix = "map"   -> "spatial_map_file_objects"
       ELSE UNCHANGED <<rw_f, rw_routed>>
    /\ rw_pc' = "next"
    /\ UNCHANGED rw_pieces
    /\ UNCHANGED not_rw_vars

RwNext ==
    \/ RewriteSubject
    \/ RouteBySuffix

-----------------------------------------------------------------------------
(* pipeline/workflow/fmriprepwrapper/anat.py: init_anat_preproc_wf.  The
   nodes of the graph are named as in the code; a connection is an edge from
   an output field of one node to an input field of another.  The workflow
   engine is a library: connect visits the connections of a call twice,
   first to check them and then to add them, and raises before it adds any
   if a check fails. *)

\* Lines 17-29.
anat_preproc_wf_output_attrs ==
    << "t1w_preproc", "t1w_mask", "t1w_dseg", "t1w_tpms", "std_preproc", "std_mask",
       "std_dseg", "std_tpms", "template", "anat2std_xfm", "std2anat_xfm" >>

\* The names the workflow is built under.
WorkflowNames == {"anat_preproc_wf", "anat_wf"}

Edge(src, out, dst, inp) == [src |-> src, out |-> out, dst |-> dst, inp |-> inp]

\* Lines 39-47: the fields of the three identity nodes.
IdentityFields ==
    [inputnode  |-> {"t1w"},
     buffernode |-> {"t1w_brain", "t1w_mask"},
     outputnode |-> Range(anat_preproc_wf_output_attrs)]

\* Lines 58-73, 81-90 and 98-123: the connections of the three calls of
\* workflow.connect, in the order of the lists.
Connections(call) ==
    CASE call = 1 ->
           << Edge("inputnode", "t1w", "anat_validate", "in_file"),
              Edge("anat_validate", "out_file", "brain_extraction_wf", "inputnode.in_files"),
              Edge("brain_extraction_wf", "outputnode.bias_corrected", "outputnode", "t1w_preproc"),
              Edge("brain_extraction_wf", "outputnode.out_file", "buffernode", "t1w_brain"),
              Edge("brain_extraction_wf", "outputnode.out_mask", "buffernode", "t1w_mask"),
              Edge("buffernode", "t1w_brain", "outputnode", "t1w_brain"),
              Edge("buffernode", "t1w_mask", "outputnode", "t1w_mask") >>
      [] call = 2 ->
           << Edge("buffernode", "t1w_brain", "t1w_dseg", "in_files"),
              Edge("t1w_dseg", "tissue_class_map", "outputnode", "t1w_dseg"),
              Edge("t1w_dseg", "probability_maps", "outputnode", "t1w_tpms") >>
      [] OTHER ->
           << Edge("inputnode", "t1w", "anat_norm_wf", "inputnode.orig_t1w"),
              Edge("brain_extraction_wf", "outputnode.bias_corrected", "anat_norm_wf",
                   "inputnode.moving_image"),
              Edge("buffernode", "t1w_mask", "anat_norm_wf", "inputnode.moving_mask"),
              Edge("t1w_dseg", "tissue_class_map", "anat_norm_wf",
                   "inputnode.moving_segmentation"),
              Edge("t1w_dseg", "probability_maps", "anat_norm_wf", "inputnode.moving_tpms"),
              Edge("anat_norm_wf", "outputnode.standardized", "outputnode", "std_preproc"),
              Edge("anat_norm_wf", "outputnode.std_mask", "outputnode", "std_mask"),
              Edge("anat_norm_wf", "outputnode.std_dseg", "outputnode", "std_dseg"),
              Edge("anat_norm_wf", "outputnode.std_tpms", "outputnode", "std_tpms"),
              Edge("anat_norm_wf", "outputnode.template", "outputnode", "template"),
              Edge("anat_norm_wf", "outputnode.anat2std_xfm", "outputnode", "anat2std_xfm"),
              Edge("anat_norm_wf", "outputnode.std2anat_xfm", "outputnode", "std2anat_xfm") >>

\* Whether the node has the output: an identity node has its fields; the
\* nodes of the libraries are taken to have what the code names.
HasOutput(node, out) == node \in DOMAIN IdentityFields => out \in IdentityFields[node]

\* Whether connect accepts the input name: the engine either checks the name
\* against the fields of an identity node, or takes any name for such a node.
HasInput(node, inp) ==
    (node \in DOMAIN IdentityFields /\ gr_checks_inputs) => inp \in IdentityFields[node]

\* Whether the input is connected already, in the graph or earlier in the call.
AlreadyConnected(e, earlier) ==
    \E c \in gr_edges \cup Range(earlier) : c.dst = e.dst /\ c.inp = e.inp

GrIdle ==
    /\ gr_name = "anat_preproc_wf"
    /\ gr_checks_inputs = FALSE
    /\ gr_pc = "idle"
    /\ gr_call = 0
    /\ gr_todo = << >>
    /\ gr_edges = {}

GrInit ==
    /\ gr_name \in WorkflowNames
    /\ gr_checks_inputs \in BOOLEAN
    /\ gr_pc = "new"
    /\ gr_call = 0
    /\ gr_todo = << >>
    /\ gr_edges = {}

\* Lines 37-58: the workflow and its nodes are created, and the first call
\* of connect begins.
init_anat_preproc_wf ==
    /\ gr_pc = "new"
    /\ gr_pc' = "check"
    /\ gr_call' = 1
    /\ gr_todo' = Connections(1)
    /\ UNCHANGED <<gr_name, gr_checks_inputs, gr_edges>>
    /\ UNCHANGED not_gr_vars

\* connect, first pass: the next connection of the call is checked.
ConnectCheck ==
    /\ gr_pc = "check"
    /\ IF gr_todo = << >>
         THEN /\ gr_pc' = "add"
              /\ gr_todo' = Connections(gr_call)
       ELSE LET e == Head(gr_todo)
                all == Connections(gr_call)
                earlier == SubSeq(all, 1, Len(all) - Len(gr_todo))
            IN  IF /\ HasOutput(e.src, e.out)
                   /\ HasInput(e.dst, e.inp)
                   /\ ~AlreadyConnected(e, earlier)
                  THEN gr_todo' = Tail(gr_todo) /\ UNCHANGED gr_pc
                  ELSE gr_pc' = "raised" /\ UNCHANGED gr_todo
    /\ UNCHANGED <<gr_name, gr_checks_inputs, gr_call, gr_edges>>
    /\ UNCHANGED not_gr_vars

\* connect, second pass: the next connection becomes an edge; after the
\* last one the next call begins, and after the third call the workflow is
\* returned (line 181).
ConnectAdd ==
    /\ gr_pc = "add"
    /\ IF gr_todo # << >>
         THEN /\ gr_edges' = gr_edges \cup {Head(gr_todo)}
              /\ gr_todo' = Tail(gr_todo)
              /\ UNCHANGED <<gr_pc, gr_call>>
       ELSE IF gr_call < 3
         THEN /\ gr_call' = gr_call + 1
              /\ gr_todo' = Connections(gr_call + 1)
              /\ gr_pc' = "check"
              /\ UNCHANGED gr_edges
       ELSE /\ gr_pc' = "done"
            /\ UNCHANGED <<gr_call, gr_todo, gr_edges>>
    /\ UNCHANGED <<gr_name, gr_checks_inputs>>
    /\ UNCHANGED not_gr_vars

GrNext ==
    \/ init_anat_preproc_wf
    \/ ConnectCheck
    \/ ConnectAdd

-----------------------------------------------------------------------------
(* The specifications. *)

\* No widget of the feature and preprocessing tabs is in use.
UiIdle == TbIdle /\ PpIdle /\ SwIdle /\ RwIdle /\ GrIdle

\* The widgets are at rest, and so are the path rewrite and the graph builder.
WidgetsIdle == TbIdle /\ PpIdle /\ SwIdle

\* Everything but the widgets is at rest.
CoreIdle == WdInit /\ CollectIdle /\ FmIdle /\ EvIdle /\ GcIdle /\ MdIdle

Init == WdInit /\ CollectIdle /\ FmIdle /\ EvIdle /\ GcIdle /\ MdIdle /\ UiIdle

Next == WdNext

Spec == Init /\ [][Next]_vars

InitCollect == WdInit /\ CollectInit /\ FmIdle /\ EvIdle /\ GcIdle /\ MdIdle /\ UiIdle

SpecCollect == InitCollect /\ [][CollectNext]_vars

InitFieldmaps == WdInit /\ CollectIdle /\ FmInit /\ EvIdle /\ GcIdle /\ MdIdle /\ UiIdle

SpecFieldmaps == InitFieldmaps /\ [][FmNext]_vars

InitEvents == WdInit /\ CollectIdle /\ FmIdle /\ EvInit /\ GcIdle /\ MdIdle /\ UiIdle

SpecEvents == InitEvents /\ [][EvNext]_vars

InitConditions == WdInit /\ CollectIdle /\ FmIdle /\ EvIdle /\ GcInit /\ MdIdle /\ UiIdle

SpecConditions == InitConditions /\ [][GcNext]_vars

InitMetadata == WdInit /\ CollectIdle /\ FmIdle /\ EvIdle /\ GcIdle /\ MdInit /\ UiIdle

SpecMetadata == InitMetadata /\ [][WizardNext]_vars

InitTaskDefaults == CoreIdle /\ TbInit /\ PpIdle /\ SwIdle /\ RwIdle /\ GrIdle

SpecTaskDefaults == InitTaskDefaults /\ [][TbConstruct]_vars

InitTaskBased == CoreIdle /\ TbInit /\ NewOrLoaded /\ PpIdle /\ SwIdle /\ RwIdle /\ GrIdle

SpecTaskBased == InitTaskBased /\ [][TbNext]_vars

InitTaskInputs == InitTaskBased /\ NothingSelected

SpecTaskInputs == InitTaskInputs /\ [][TbInputsNext]_vars

InitPreprocessing == CoreIdle /\ TbIdle /\ PpInit /\ SwIdle /\ RwIdle /\ GrIdle

SpecPreprocessing == InitPreprocessing /\ [][PpNext]_vars

InitSwitch == CoreIdle /\ TbIdle /\ PpIdle /\ SwInit /\ RwIdle /\ GrIdle

SpecSwitch == InitSwitch /\ [][SwNext]_vars

InitRewrite == CoreIdle /\ WidgetsIdle /\ RwInit /\ GrIdle

SpecRewrite == InitRewrite /\ [][RwNext]_vars

InitGraph == CoreIdle /\ WidgetsIdle /\ RwIdle /\ GrInit

SpecGraph == InitGraph /\ [][GrNext]_vars

-----------------------------------------------------------------------------
(* Properties of the working-directory manager. *)

Running(name) == { k \in 1..Len(workers) : workers[k].name = name }

PanelsInProgress == handler.pc = "create_file_item"

\* C1: every start of mount_features follows a SUCCESS report of a
\* cache_file_worker run of its own, and every start of mount_file_panels
\* follows a SUCCESS report of a feature_worker run of its own: neither stage
\* has started more often than its predecessor has reported success.
C1_StageStartsAfterPredecessorSuccess ==
    /\ hist.nFeatStart <= hist.nCacheSuccess
    /\ hist.nPanelStart <= hist.nFeatSuccess

\* C1, its case: the three stages of a load have run one after the other.
C1_Witness == hist.nCacheSuccess >= 1 /\ hist.nFeatSuccess >= 1 /\ hist.nPanelStart >= 1

\* C2: at most one instance of each population stage runs at any time; a
\* start of a stage whose instance still runs cancels that instance.
C2_OneInstancePerStage ==
    /\ Cardinality(Running("cache_file_worker")) <= 1
    /\ Cardinality(Running("feature_worker")) <= 1
    /\ hist.nPanelActive <= 1

\* C2, its case: a second Load started the cache population while the one of
\* the load before was suspended, and that one was cancelled.
C2_Witness == hist.superseded /\ Running("cache_file_worker") # {}

\* C3: no two different population stages are in progress at the same time.
C3_StagesStrictlySequential ==
    /\ ~(PanelsInProgress /\ workers # << >>)
    /\ \A j, k \in 1..Len(workers) : workers[j].name = workers[k].name

C5_NoStageAfterRecovery == ~hist.afterRecovery

\* C6: every directory whose override the user confirmed has a backup copy of
\* its spec.json.
C6_ConfirmedOverrideHasBackup == hist.overridden \subseteq backups

\* C7: once a declined override and the messages it caused are handled, the
\* browser shows no path and the working directory is unset.
C7_DeclineClearsBrowser ==
    (hist.afterDecline /\ queue = << >> /\ handler.pc = "idle")
        => (label = "" /\ workdir = PyNone)

\* C8: after a Load the Context's specification is the loaded one, field by
\* field, and its files are registered in the database.
C8_LoadReplacesSpecification ==
    hist.lastLoaded # PyNone =>
        /\ ctx_spec = SpecDoc(hist.lastLoaded)
        /\ Range(SpecDoc(hist.lastLoaded).files) \subseteq database

\* C35: the run of mount_features creates one widget for each feature of the
\* loaded specification and no other: none for an output-image setting, none
\* for a cache entry that only holds a file; every setting that is not an
\* output-image setting is in the cache entry of the feature that refers to
\* it.
C35_OneWidgetPerFeature ==
    [][\A k \in 1..Len(workers) :
          (/\ workers[k].name = "feature_worker"
           /\ workers[k].pc = "start"
           /\ existing_spec # PyNone
           /\ Len(workers') = Len(workers)
           /\ workers'[k].pc = "add_new_feature")
          => LET doc == SpecDoc(existing_spec)
                 pending == workers'[k].pending
             IN  /\ Range(pending) = { f.name : f \in Range(doc.features) }
                 /\ Len(pending) = Len(doc.features)
                 /\ \A st \in Range(doc.settings) :
                       /\ st.output_image => st.name \notin Range(pending)
                       /\ ~st.output_image =>
                             \E f \in Range(doc.features) :
                                 /\ f.setting = st.name
                                 /\ <<f.name, "settings">> \in Range(cache')
                 /\ \A f \in Range(doc.files) : f.path \notin Range(pending)]_vars

\* C37: in every state with no message pending the flag from_working_dir_tab
\* is true only if ctx.workdir is set; once a declined override is handled
\* the flag is false and the application tabs are hidden.
C37_TabFlagFollowsWorkdir ==
    (queue = << >> /\ handler.pc = "idle") =>
        /\ flags_to_show_tabs.from_working_dir_tab => workdir # PyNone
        /\ hist.afterDecline =>
              ~flags_to_show_tabs.from_working_dir_tab /\ ~tabs_shown

\* The step in which the user confirms the directory d in the browser modal.
UserChooses(d) == hist'.nBrowse = hist.nBrowse + 1 /\ label' = d

\* C40: after the no-usable-data recovery or a declined override has unset
\* the working directory, the user's choice of the directory the browser
\* held (after a decline: of any directory) posts a Changed notification for
\* it, which makes it the working directory and looks for a specification.
C40_SameDirectoryIsNewSelection ==
    [][\A d \in Dirs :
          (/\ UserChooses(d)
           /\ workdir = PyNone
           /\ \/ hist.nRecov > 0 /\ queue = << >> /\ selected_path = d
              \/ hist.afterDecline)
          => (queue' # << >> /\ queue'[Len(queue')] = Changed(d))]_vars

-----------------------------------------------------------------------------
(* Properties of collect_bold_files. *)

\* The runs that passed the anatomical filter and have canonical path b.
DuplicateGroup(b) == { p \in Runs : ~associations(p).none /\ run_facts[p].bids = b }

Returned == DOMAIN bold_file_paths_dict

\* C9: of every group of two or more runs with one canonical BIDS path the
\* returned mapping holds exactly one run, and it has the group's maximum
\* volume count.
C9_DuplicatesResolvedByVolumeCount ==
    collect_pc = "done" =>
        \A b \in BidsPaths :
            Cardinality(DuplicateGroup(b)) >= 2 =>
                \E p \in DuplicateGroup(b) :
                    /\ Returned \cap DuplicateGroup(b) = {p}
                    /\ \A q \in DuplicateGroup(b) : nvol(q) <= nvol(p)

\* C10: of the runs of a group tied at the maximum volume count the returned
\* mapping holds the alphabetically-last one and no other run of the group.
C10_TieBrokenAlphabetically ==
    collect_pc = "done" =>
        \A b \in BidsPaths :
            LET tied == { p \in DuplicateGroup(b) :
                            \A q \in DuplicateGroup(b) : nvol(q) <= nvol(p) }
            IN  Cardinality(tied) >= 2 =>
                    Returned \cap DuplicateGroup(b) = {SetMax(tied)}

\* The runs whose canonicalization failed: visited by the loop of lines
\* 184-198 and not entered into bids_dict.
FailedCanonicalization == bold_file_paths \ { e[2] : e \in bids_dict }

\* C11: a run whose canonicalization failed is not a key of the returned
\* mapping.
C11_FailedCanonicalizationDropped ==
    collect_pc = "done" => Returned \cap FailedCanonicalization = {}

\* C12: the list of every run of the returned mapping holds a T1w scan.
C12_ReturnedRunsHaveT1w ==
    collect_pc = "done" =>
        \A p \in Returned : "T1w" \in Range(bold_file_paths_dict[p])

\* C31: for every group of two or more runs with one canonical BIDS path
\* the log holds exactly one warning; it names every run of the group but
\* the kept one, and its criterion is the longest duration when every
\* excluded run has fewer volumes than the kept one, and the alphabetical
\* order otherwise.
C31_OneWarningPerGroup ==
    collect_pc = "done" =>
        \A b \in BidsPaths :
            Cardinality(DuplicateGroup(b)) >= 2 =>
                \E i \in 1..Len(log) :
                    /\ log[i].selected \in DuplicateGroup(b)
                    /\ log[i].excluded = DuplicateGroup(b) \ {log[i].selected}
                    /\ log[i].criterion =
                          IF \A q \in log[i].excluded : nvol(q) < nvol(log[i].selected)
                            THEN "Image with the longest duration"
                            ELSE "Last image when sorting alphabetically"
                    /\ \A j \in 1..Len(log) : log[j].selected \in DuplicateGroup(b) => j = i

-----------------------------------------------------------------------------
(* Properties of collect_fieldmaps. *)

FmFound == DOMAIN fm_suffix

FmReturned == Range(fm_result)

SomeFound(suffixes) == \E d \in FmFound : fm_suffix[d] \in suffixes

\* Whether the candidates found hold the magnitude image candidate c needs.
FmComplete(c) ==
    /\ fm_suffix[c] \in {"phase1", "phase2", "phasediff"}
          => SomeFound({"magnitude1", "magnitude2"})
    /\ fm_suffix[c] = "fieldmap" => SomeFound({"magnitude"})

\* C13: a returned phase1, phase2 or phasediff map has a magnitude1 or
\* magnitude2 image among the candidates and a returned fieldmap has a
\* magnitude image; every other candidate the pepolar pass cannot take away
\* is returned.
C13_CompletenessFilter ==
    fm_pc = "done" =>
        /\ \A c \in FmReturned : FmComplete(c)
        /\ \A c \in FmFound : (FmComplete(c) /\ fm_suffix[c] # "epi") => c \in FmReturned

\* C13, its case: a phasediff map without magnitude1/magnitude2 images was
\* left out and the rest of its group was returned.
C13_Witness ==
    /\ fm_pc = "done"
    /\ \E c \in FmFound : fm_suffix[c] = "phasediff" /\ ~FmComplete(c) /\ c \notin FmReturned
    /\ FmReturned # {}

\* C14: if check_pes rejects the pairing the result is what the completeness
\* pass left without its epi maps; if it accepts, the result is all of it.
C14_PepolarFilter ==
    fm_pc = "done" =>
        /\ fm_check = "ValueError" =>
              FmReturned = { c \in fm_pass1 : fm_suffix[c] # "epi" }
        /\ fm_check = "accept" => FmReturned = fm_pass1

\* C14, its case: a rejected pairing with epi maps and other maps at hand.
C14_Witness ==
    /\ fm_pc = "done"
    /\ fm_check = "ValueError"
    /\ \E c \in fm_pass1 : fm_suffix[c] = "epi"
    /\ FmReturned # {}

\* C15: collect_fieldmaps does not raise, and what it returns is in
\* ascending order.
C15_FieldmapsNeverRaises ==
    /\ fm_pc # "AssertionError"
    /\ fm_pc = "done" =>
          \A i, j \in 1..Len(fm_result) : i < j => fm_result[i] < fm_result[j]

-----------------------------------------------------------------------------
(* Properties of collect_events. *)

EvListed == Range(ev_listing)

EvReturnedPaths == { ev_result.files[i].path : i \in 1..Len(ev_result.files) }

\* The candidates whose subject is set and is not the subject of the source.
OtherSubject(p) == ev_files[p].sub # "None" /\ ev_files[p].sub # ev_source_sub

\* C16: no returned event file has a subject that is set and differs from
\* the subject of the source file, and every listed event file without a
\* subject tag is returned.
C16_EventSubjectScoping ==
    ev_pc = "done" =>
        /\ \A p \in EvReturnedPaths : ~OtherSubject(p)
        /\ \A p \in EvListed : ev_files[p].sub = "None" => p \in EvReturnedPaths

\* C16, its case: the query listed an event file of another subject and one
\* without a subject, and the call returned.
C16_Witness ==
    /\ ev_pc = "done"
    /\ ev_source_sub = "s1"
    /\ \E p \in EvListed : ev_files[p].sub = "s2"
    /\ \E p \in EvListed : ev_files[p].sub = "None"
    /\ ~ev_result.none

\* C17: the result is fixed by the set of candidates listed: no value
\* exactly when the subject filter leaves none, otherwise the remaining
\* candidates in ascending order, each once, a ".txt" file as a pair with
\* its condition and any other file as a bare path.
C17_EventsDeterministic ==
    ev_pc = "done" =>
        /\ ev_result.none <=> { p \in EvListed : ~OtherSubject(p) } = {}
        /\ ev_result.none => ev_result.files = << >>
        /\ ~ev_result.none =>
              /\ EvReturnedPaths = { p \in EvListed : ~OtherSubject(p) }
              /\ \A i, j \in 1..Len(ev_result.files) :
                    i < j => ev_result.files[i].path < ev_result.files[j].path
              /\ \A i \in 1..Len(ev_result.files) :
                    LET e == ev_result.files[i] IN
                    /\ e.paired <=> ev_files[e.path].extension = ".txt"
                    /\ e.paired => e.condition = ev_files[e.path].condition

\* C17, its case: a listing out of order and with a repetition, a ".txt" and
\* another file among the candidates returned.
C17_Witness ==
    /\ ev_pc = "done"
    /\ \E i, j \in 1..Len(ev_listing) : i < j /\ ev_listing[i] > ev_listing[j]
    /\ \E i, j \in 1..Len(ev_listing) : i < j /\ ev_listing[i] = ev_listing[j]
    /\ \E i, j \in 1..Len(ev_result.files) : ev_result.files[i].paired /\ ~ev_result.files[j].paired

-----------------------------------------------------------------------------
(* Properties of get_conditions. *)

\* The condition names of the tuples ts, one tuple after the other.
RECURSIVE Flatten(_)
Flatten(ts) == IF ts = << >> THEN << >> ELSE gc_parse[Head(ts)] \o Flatten(Tail(ts))

\* The list xs cut to the first occurrence of each of its elements.
RECURSIVE FirstSeen(_)
FirstSeen(xs) ==
    IF xs = << >> THEN << >>
    ELSE LET init == FirstSeen(SubSeq(xs, 1, Len(xs) - 1))
             x == xs[Len(xs)]
         IN  IF x \in Range(init) THEN init ELSE Append(init, x)

\* C18: no tuple is parsed twice; at the return every tuple some run has was
\* parsed, and nothing else; the list holds the names read, each once, in
\* the order in which they were first read.
C18_ConditionsOnce ==
    /\ \A i, j \in 1..Len(gc_parsed) : i # j => gc_parsed[i] # gc_parsed[j]
    /\ gc_conditions = FirstSeen(Flatten(gc_parsed))
    /\ gc_pc = "done" =>
          Range(gc_parsed) = { gc_events[r] : r \in DOMAIN gc_events } \ {0}

\* C18, its case: two runs with the identical tuple, one run without event
\* files, and two tuples with a condition name in common.
C18_Witness ==
    /\ gc_pc = "done"
    /\ \E r, q \in DOMAIN gc_events : r # q /\ gc_events[r] = gc_events[q] /\ gc_events[r] # 0
    /\ \E r \in DOMAIN gc_events : gc_events[r] = 0
    /\ Len(gc_conditions) >= 1


-----------------------------------------------------------------------------
(* Properties of the metadata steps. *)

\* Every resolved file lacks a value for the key (no file at all included).
AllAbsent == \A k \in 1..Len(md_vals) : md_vals[k] = 0

\* CheckMetadataStep.next has been executed.
NextDone == md_pc \notin {"idle", "setup"} /\ ~md_is_first_run

\* C19 as stated: if every resolved file's value for the key is absent and
\* the step is not configured to skip, the step reaches its continuation
\* step after its first run, with no user interaction and without a
\* SetMetadataStep.
C19_MissingAdvancesToContinuation ==
    (NextDone /\ AllAbsent /\ ~md_skip) =>
        /\ md_pc = "continuation"
        /\ md_asked = 0
        /\ ~md_set_step.made

\* C19 as the code has it: if every resolved file's value for the key is
\* absent and the step is not configured to skip, the step asks nothing on
\* its first run and then enters a SetMetadataStep with the same filters,
\* schema, key and continuation and no suggestion; the continuation step is
\* reached only once that SetMetadataStep has written a value.
C19_MissingEntersSetMetadataStep ==
    (NextDone /\ AllAbsent /\ ~md_skip) =>
        /\ md_asked = 0
        /\ md_views = NoViews
        /\ md_set_step.made
        /\ md_set_step.filters = md_filters
        /\ md_set_step.schema = "schema"
        /\ md_set_step.key = md_key
        /\ md_set_step.suggestion = NoLabel
        /\ md_set_step.next_step_type = "next_step_type"
        /\ md_pc = "continuation" =>
              /\ md_result # NoLabel
              /\ \A f \in specfileobjs(md_filters) : md_metadata[f].value = md_result.label

C19_Witness ==
    /\ NextDone
    /\ AllAbsent
    /\ ~md_skip
    /\ Len(md_vals) > 0
    /\ md_pc = "set_run"
    /\ md_set_step.made

\* C20: with at least one value present, the answer "Yes" leads to the
\* continuation step, creates no SetMetadataStep and changes no metadata;
\* the answer "No" leads to a SetMetadataStep with the same schema, key,
\* filters and continuation; a step configured to skip leads to the
\* continuation step and has asked nothing.
C20_CheckMetadataTransitions ==
    [][md_pc = "next" =>
        /\ (~md_is_missing /\ md_choice = "Yes") =>
              /\ md_pc' = "continuation"
              /\ md_set_step' = md_set_step
              /\ md_metadata' = md_metadata
        /\ (~md_is_missing /\ md_choice = "No") =>
              /\ md_pc' = "set_run"
              /\ md_set_step'.made
              /\ md_set_step'.schema = "schema"
              /\ md_set_step'.key = md_key
              /\ md_set_step'.filters = md_filters
              /\ md_set_step'.next_step_type = "next_step_type"
        /\ md_should_skip =>
              /\ md_pc' = "continuation"
              /\ md_asked' = 0
              /\ md_set_step' = NoStep
              /\ md_metadata' = md_metadata]_vars

C20_Witness ==
    /\ md_pc = "set_run"
    /\ ~md_is_missing
    /\ md_choice = "No"
    /\ md_filters = "filters"
    /\ md_set_step.filters = "filters"


\* How often a value occurs among the resolved files.
Occurrences(v) == Cardinality({ k \in 1..Len(md_vals) : md_vals[k] = v })

\* C21: when the user has answered "No", the suggestion carried into
\* SetMetadataStep is a most frequent value among the resolved files.
C21_SuggestionMostFrequent ==
    (md_pc = "set_run" /\ ~md_is_missing /\ md_choice = "No") =>
        /\ md_set_step.suggestion # NoLabel
        /\ \A v \in MdValues :
              Occurrences(md_set_step.suggestion.label) >= Occurrences(v)

\* C22: when the input view of SetMetadataStep yields nothing, run reports
\* failure: SetMetadataStep.next and the continuation step are not entered
\* and no specification file object's metadata is created or changed.
C22_CancelSetMetadataHalts ==
    [][(md_pc = "set_run" /\ md_pc' # "set_run" /\ md_result' = NoLabel) =>
          /\ md_pc' \notin {"set_next", "continuation"}
          /\ md_metadata' = md_metadata]_vars

C22_Witness ==
    /\ md_pc = "run"
    /\ md_set_step.made
    /\ md_result = NoLabel
    /\ ~md_is_first_run

\* C23: on confirmation SetMetadataStep writes the canonical value under its
\* key into the metadata of every matching specification file object (of the
\* last one only when no filter is set), creating the mapping if absent and
\* keeping its other keys; the other file objects keep their metadata; the
\* continuation step is entered.
C23_SetMetadataWrites ==
    [][(md_pc = "set_next" /\ md_pc' # "set_next") =>
          /\ md_pc' = "continuation"
          /\ \A f \in MdSpecFiles :
                IF f \in (IF md_filters = "None" THEN {MdLastSpecFile} ELSE md_matching)
                  THEN /\ md_metadata'[f].exists
                       /\ md_metadata'[f].value = md_result.label
                       /\ md_metadata'[f].value \in MdValues
                       /\ md_metadata'[f].other = md_metadata[f].other
                  ELSE md_metadata'[f] = md_metadata[f]]_vars

C23_Witness ==
    /\ md_pc = "continuation"
    /\ md_filters = "filters"
    /\ md_matching = {1}
    /\ md_result # NoLabel
    /\ md_metadata[1].exists
    /\ md_metadata[1].value = md_result.label
    /\ ~md_metadata[2].exists


\* C32: when a value is present, CheckMetadataStep lists at most ten
\* distinct values in the order of ascending occurrence count, each with its
\* own count, and shows the ellipsis exactly when there are more than ten
\* distinct values.
C32_ValuesListedByAscendingCount ==
    md_views.shown =>
        /\ Len(md_views.rows) <= 10
        /\ \A i, j \in 1..Len(md_views.rows) :
              /\ i < j => md_views.rows[i].count <= md_views.rows[j].count
              /\ i # j => md_views.rows[i].display # md_views.rows[j].display
        /\ \A i \in 1..Len(md_views.rows) :
              /\ md_views.rows[i].count >= 1
              /\ md_views.rows[i].count = Occurrences(md_views.rows[i].display.label)
        /\ md_views.ellipsis <=> Cardinality(Range(md_vals)) > 10

-----------------------------------------------------------------------------
(* Properties of the task-based feature widget. *)

\* C24: the constructor gives every missing sub-structure its default:
\* grand_mean_scaling.mean "10000.0", a task include-filter without values
\* (no task selected), a gaussian band-pass filter without widths, smoothing
\* without a width, no contrasts; what the dictionaries already hold is
\* left as it is.
C24_TaskBasedDefaults ==
    [][(tb_pc = "new" /\ tb_pc' = "constructed") =>
          /\ tb_setting'.grand_mean_scaling =
                IF tb_setting.grand_mean_scaling.present THEN tb_setting.grand_mean_scaling
                ELSE [present |-> TRUE, mean |-> "10000.0"]
          /\ tb_setting'.filters =
                IF tb_setting.filters.present THEN tb_setting.filters
                ELSE [present |-> TRUE, type |-> "tag", action |-> "include",
                      entity |-> "task", values |-> << >>]
          /\ ~tb_setting.filters.present => \A t \in Tasks : ~tb_images_to_use'[t]
          /\ tb_setting'.bandpass_filter =
                IF tb_setting.bandpass_filter.present THEN tb_setting.bandpass_filter
                ELSE [present |-> TRUE, type |-> "gaussian", hp_width |-> "None",
                      lp_width |-> "None"]
          /\ tb_setting'.smoothing =
                IF tb_setting.smoothing.present THEN tb_setting.smoothing
                ELSE [present |-> TRUE, fwhm |-> "None"]
          /\ tb_feature'.contrasts =
                IF tb_feature.contrasts.present THEN tb_feature.contrasts
                ELSE [present |-> TRUE, val |-> << >>]
          /\ tb_feature'.type.present
          /\ tb_feature.type.present => tb_feature'.type = tb_feature.type
          /\ tb_feature'.conditions = tb_feature.conditions
          /\ tb_setting'.ica_aroma = tb_setting.ica_aroma
          /\ tb_setting'.confounds_removal = tb_setting.confounds_removal]_vars

C24_Witness ==
    /\ tb_pc = "constructed"
    /\ tb_setting.grand_mean_scaling.mean = "10000.0"
    /\ tb_setting.filters.values = << >>
    /\ tb_setting.bandpass_filter.type = "gaussian"
    /\ tb_setting.smoothing.fwhm = "6.0"
    /\ tb_feature.contrasts.val = << >>

\* What C25 says of the Setting: confounds_removal is the selection of the
\* confound list without "ICA-AROMA", ica_aroma says whether "ICA-AROMA" is
\* selected.
ConfoundsStored ==
    /\ tb_setting.confounds_removal.present
    /\ tb_setting.ica_aroma.present
    /\ "ICA-AROMA" \notin Range(tb_setting.confounds_removal.val)
    /\ Range(tb_setting.confounds_removal.val) = Range(tb_selected_confounds) \ {"ICA-AROMA"}
    /\ Len(tb_setting.confounds_removal.val) =
          Cardinality(Range(tb_selected_confounds) \ {"ICA-AROMA"})
    /\ tb_setting.ica_aroma.val = ("ICA-AROMA" \in Range(tb_selected_confounds))

\* C25: once a change of the confound selection has been handled, and from
\* then on whenever no such change is pending, confounds_removal is the
\* selection without "ICA-AROMA" and ica_aroma is true exactly when
\* "ICA-AROMA" is selected.
C25_IcaAromaStoredSeparately ==
    [][("confounds_selection" \notin tb_pending'
           /\ ("confounds_selection" \in tb_pending \/ ConfoundsStored)) =>
          ConfoundsStored']_vars

C25_Witness ==
    /\ tb_pc = "mounted"
    /\ tb_pending = {}
    /\ ConfoundsStored
    /\ tb_setting.ica_aroma.val
    /\ tb_setting.confounds_removal.val = <<ConfoundKeys[2]>>
    /\ Len(tb_selected_confounds) = 2

\* The conditions of the tasks of a selection, last task last.
RECURSIVE ConditionsOf(_)
ConditionsOf(selection) ==
    IF selection = << >> THEN << >>
    ELSE ConditionsOf(SubSeq(selection, 1, Len(selection) - 1))
            \o tb_task_conditions[selection[Len(selection)]]

\* What C26 says: filter values, conditions and sub-editor follow the
\* selection of task images.
ConditionsStored ==
    /\ tb_setting.filters.values = tb_selected_images
    /\ tb_feature.conditions = [present |-> TRUE, val |-> ConditionsOf(tb_selected_images)]
    /\ tb_condition_values = [present |-> TRUE, val |-> ConditionsOf(tb_selected_images)]

\* C26: once a change of the task-image selection has been handled, and
\* from then on whenever no such change is pending, the Setting's task filter
\* values are the selected tasks, and the Feature's conditions and the
\* sub-editor hold the conditions of exactly the selected tasks.
C26_ConditionsFollowSelection ==
    [][("images_to_use_selection" \notin tb_pending'
           /\ ("images_to_use_selection" \in tb_pending \/ ConditionsStored)) =>
          ConditionsStored']_vars

C26_Witness ==
    /\ tb_pc = "mounted"
    /\ tb_pending = {}
    /\ ConditionsStored
    /\ tb_selected_images = <<2, 1>>
    /\ tb_feature.conditions.val # << >>
    /\ tb_feature.conditions.val # AllTaskConditions(<< >>)

\* The fields of the Setting and the Feature other than the one named.
OthersKept(field) ==
    /\ field # "bandpass_filter.type" =>
          tb_setting'.bandpass_filter.type = tb_setting.bandpass_filter.type
    /\ field # "bandpass_filter.lp_width" =>
          tb_setting'.bandpass_filter.lp_width = tb_setting.bandpass_filter.lp_width
    /\ field # "bandpass_filter.hp_width" =>
          tb_setting'.bandpass_filter.hp_width = tb_setting.bandpass_filter.hp_width
    /\ tb_setting'.bandpass_filter.present = tb_setting.bandpass_filter.present
    /\ field # "grand_mean_scaling.mean" =>
          tb_setting'.grand_mean_scaling = tb_setting.grand_mean_scaling
    /\ field # "smoothing.fwhm" => tb_setting'.smoothing = tb_setting.smoothing
    /\ tb_setting'.filters = tb_setting.filters
    /\ tb_setting'.ica_aroma = tb_setting.ica_aroma
    /\ tb_setting'.confounds_removal = tb_setting.confounds_removal
    /\ field # "type" => tb_feature'.type = tb_feature.type
    /\ tb_feature'.contrasts = tb_feature.contrasts
    /\ tb_feature'.conditions = tb_feature.conditions

C38_ToggleOffClearsValue ==
    tb_pc = "mounted" =>
        /\ ~tb_switches["smoothing"].toggle => tb_setting.smoothing.fwhm = "None"
        /\ ~tb_switches["bandpass_filter_lp_width"].toggle =>
              tb_setting.bandpass_filter.lp_width = "None"
        /\ ~tb_switches["bandpass_filter_hp_width"].toggle =>
              tb_setting.bandpass_filter.hp_width = "None"

\* C39: the conditions list of the Feature holds each condition once.
C39_ConditionsWithoutRepetition ==
    tb_feature.conditions.present =>
        \A i, j \in 1..Len(tb_feature.conditions.val) :
            i # j => tb_feature.conditions.val[i] # tb_feature.conditions.val[j]

-----------------------------------------------------------------------------
(* Properties of the preprocessing widget. *)

\* C27: when the user confirms the modal with a count n (blank counts as 0),
\* global_settings.dummy_scans is n afterwards.
C27_ManualCountStored ==
    [][on_ok_button_pressed =>
          pp_global_settings'.dummy_scans = [set |-> TRUE, n |-> Dismissed(pp_input)]]_vars

\* C28: while "detect automatically" is on, global_settings.dummy_scans has
\* no value.
C28_AutoDetectClearsDummyScans ==
    pp_via_algorithm => ~pp_global_settings.dummy_scans.set

-----------------------------------------------------------------------------
(* Properties of the compact file browser and of the switch controls. *)

\* C29: when the directory browser modal is cancelled, the label and the
\* selected_path of the FileBrowser are unchanged and no Changed message is
\* posted.
C29_CancelLeavesFileBrowser ==
    [][BrowseCancel =>
          /\ label' = label
          /\ selected_path' = selected_path
          /\ queue' = queue]_vars

\* C30: in a mounted switch-with-input control the field is visible exactly
\* when the toggle shown is on.
C30_FieldVisibleIffToggleOn ==
    sw_pc = "mounted" => (sw_visible <=> sw_toggle)

-----------------------------------------------------------------------------
(* Properties of the path rewrite of cache_file_patterns. *)

Contains(s, pattern) ==
    \E i \in 1..Len(s) :
        i + Len(pattern) <= Len(s) + 1 /\ SubSeq(s, i, i + Len(pattern) - 1) = pattern

\* The part that stands for a loaded part in the current naming.
Current(piece, suffix) ==
    IF piece = "sub" THEN "subject"
    ELSE IF piece = "desc" /\ suffix \in {"atlas", "seed", "map"} THEN suffix
    ELSE piece

\* C34: after the pass over a loaded file its path has "{subject}" for every
\* "{sub}", whatever the datatype, and no "{sub}" left; the path of an atlas,
\* seed or map file has "{atlas}", "{seed}" or "{map}" for every "{desc}" and
\* no "{desc}" left; nothing else of the path has changed, a path loaded
\* with the current placeholders is as it was loaded, and the two rewrites
\* applied once more change nothing.
C34_LegacyTokensRewritten ==
    rw_pc = "next" =>
        /\ rw_f.path = PathOf([i \in 1..Len(rw_pieces) |-> Current(rw_pieces[i], rw_f.suffix)])
        /\ ~Contains(rw_f.path, Chars("sub"))
        /\ rw_f.suffix \in {"atlas", "seed", "map"} => ~Contains(rw_f.path, Chars("desc"))
        /\ (\A i \in 1..Len(rw_pieces) : rw_pieces[i] \notin {"sub", "desc"}) =>
              rw_f.path = PathOf(rw_pieces)
        /\ replace(rw_f.path, Chars("sub"), Chars("subject")) = rw_f.path
        /\ rw_f.suffix \in {"atlas", "seed", "map"} =>
              replace(rw_f.path, Chars("desc"), Chars(rw_f.suffix)) = rw_f.path

\* C34, its case: a seed file loaded with "{sub}" and "{desc}" in its path.
C34_Witness ==
    /\ rw_pc = "next"
    /\ rw_pieces = << "sub", "desc" >>
    /\ rw_f.suffix = "seed"
    /\ rw_f.path = Chars("subject") \o Chars("seed")
    /\ rw_routed = "seed_map_file_objects"

-----------------------------------------------------------------------------
(* Properties of init_anat_preproc_wf. *)

IntoOutputNode == { e \in gr_edges : e.dst = "outputnode" }

\* C36: in the graph init_anat_preproc_wf returns every edge into the
\* output node targets one of the eleven declared outputs, and each declared
\* output is fed by exactly one edge.
C36_OutputsFedOnce ==
    gr_pc = "done" =>
        /\ \A e \in IntoOutputNode : e.inp \in Range(anat_preproc_wf_output_attrs)
        /\ \A attr \in Range(anat_preproc_wf_output_attrs) :
              Cardinality({ e \in IntoOutputNode : e.inp = attr }) = 1

=============================================================================
